---------------------------- MODULE Spec2Model ----------------------------
(***************************************************************************)
(* Reliable transport over an unreliable substrate: the sliding-window     *)
(* engine (reliable_transport.py), the client send path (client.py) and    *)
(* the server peer session (server.py).                                    *)
(*                                                                         *)
(* Text is a sequence of code units.  A protocol message is a record with  *)
(* the fields of ProtocolMessage; the two metadata keys the engine reads   *)
(* (is_final, error_code) are fields of the record.                        *)
(***************************************************************************)
EXTENDS Integers, Sequences, FiniteSets, TLC

VARIABLES
    snd,             \* the client's ReliableTransport (sending engine)
    rcv,             \* the server's ReliableTransport for this peer
    c2s,             \* frames written by the client, not yet read by the server
    s2c,             \* frames written by the server, not yet read by the client
    message_buffer,  \* server: client_data['message_buffer']
    surfaced,        \* server: complete messages printed so far
    sent,            \* payloads accepted by send_data, in call order
    delivered,       \* DATA messages handed to the server's delivery callback
    last,            \* the operation that produced the current state
    env,             \* how often the environment acted (loss, faults, expiries)
    cl,              \* the ReliableClient around snd: configuration, send loop, counters
    thr,             \* the receive thread and the monitor thread inside snd's handlers
    ses              \* the connection: the client's socket and receive loop, the
                     \* server's client_data for this peer and its counters

vars == <<snd, rcv, c2s, s2c, message_buffer, surfaced, sent, delivered, last, env, cl,
          thr, ses>>

---------------------------------------------------------------------------
(* Bounds of the model *)

MaxSends == 3
MaxEnv == 1

(* Program constants *)

SEQ_SPACE == 1000
MAX_RETRIES == 3
DEFAULT_WINDOW_SIZE == 5
MIN_WINDOW_SIZE == 1
MIN_MESSAGE_SIZE == 30
DEFAULT_MAX_MESSAGE_SIZE == 100
MAX_PAYLOAD_SIZE == 4
BYTE_MOD == 256
CHAR_X == 88

GO_BACK_N == "GO_BACK_N"
SELECTIVE_REPEAT == "SELECTIVE_REPEAT"
OperationMode == {GO_BACK_N, SELECTIVE_REPEAT}

---------------------------------------------------------------------------
(* utils.py: checksum, fault injection, framing *)

\* hashlib.md5(data).hexdigest()[:8] as an integer, for every text of the model
Md5Table ==
    <<32>> :> <<29205, 61084>> @@
    <<32, 88>> :> <<59638, 14042>> @@
    <<32, 88, 101, 108>> :> <<13706, 57992>> @@
    <<32, 88, 101, 109>> :> <<22346, 18564>> @@
    <<32, 88, 104>> :> <<22810, 64568>> @@
    <<32, 100>> :> <<34858, 8305>> @@
    <<32, 100, 88, 109>> :> <<45651, 62887>> @@
    <<32, 100, 100, 109>> :> <<49545, 52549>> @@
    <<32, 100, 101, 88>> :> <<7747, 17834>> @@
    <<32, 100, 101, 108>> :> <<45607, 5554>> @@
    <<32, 100, 101, 109>> :> <<2998, 3279>> @@
    <<32, 100, 101, 110>> :> <<8523, 37883>> @@
    <<32, 100, 102, 109>> :> <<13076, 10518>> @@
    <<32, 101>> :> <<6674, 4371>> @@
    <<32, 101, 101, 109>> :> <<52222, 60397>> @@
    <<32, 114, 88, 108>> :> <<63813, 45937>> @@
    <<32, 114, 100, 108>> :> <<29008, 36912>> @@
    <<32, 114, 101, 88>> :> <<41022, 39776>> @@
    <<32, 114, 101, 108>> :> <<55118, 31685>> @@
    <<32, 114, 101, 109>> :> <<14695, 18947>> @@
    <<32, 114, 102, 108>> :> <<25643, 1910>> @@
    <<32, 115, 101, 108>> :> <<24383, 33381>> @@
    <<32, 116, 88>> :> <<45011, 32938>> @@
    <<32, 116, 104>> :> <<37097, 45522>> @@
    <<32, 116, 105>> :> <<58834, 52252>> @@
    <<32, 117, 104>> :> <<3750, 75>> @@
    <<33>> :> <<36915, 57571>> @@
    <<33, 100>> :> <<48113, 59779>> @@
    <<33, 100, 101, 109>> :> <<63919, 13398>> @@
    <<33, 101, 102, 110>> :> <<314, 43517>> @@
    <<33, 114, 101, 108>> :> <<4512, 60708>> @@
    <<33, 115, 102, 109>> :> <<51117, 35378>> @@
    <<33, 116, 104>> :> <<50669, 29698>> @@
    <<34>> :> <<45400, 13809>> @@
    <<34, 102, 103, 111>> :> <<30450, 28222>> @@
    <<34, 116, 103, 110>> :> <<50025, 26771>> @@
    <<72, 88, 108>> :> <<11232, 54046>> @@
    <<72, 88, 108, 108>> :> <<33636, 64121>> @@
    <<72, 100, 108>> :> <<59122, 43135>> @@
    <<72, 100, 108, 108>> :> <<2209, 30844>> @@
    <<72, 101, 88>> :> <<46588, 61152>> @@
    <<72, 101, 88, 108>> :> <<47463, 41176>> @@
    <<72, 101, 108>> :> <<27502, 26234>> @@
    <<72, 101, 108, 88>> :> <<13505, 15684>> @@
    <<72, 101, 108, 108>> :> <<6180, 59616>> @@
    <<72, 101, 108, 109>> :> <<5408, 37119>> @@
    <<72, 101, 109>> :> <<62837, 23794>> @@
    <<72, 101, 109, 108>> :> <<56734, 51089>> @@
    <<72, 102, 108>> :> <<35558, 56665>> @@
    <<72, 102, 108, 108>> :> <<6826, 59887>> @@
    <<73, 101, 108>> :> <<25290, 25566>> @@
    <<73, 101, 108, 108>> :> <<53486, 64032>> @@
    <<73, 102, 109, 109>> :> <<48582, 52782>> @@
    <<74, 103, 110, 110>> :> <<63229, 7041>> @@
    <<88>> :> <<530, 39864>> @@
    <<88, 32, 100>> :> <<7807, 22452>> @@
    <<88, 32, 114>> :> <<51964, 19609>> @@
    <<88, 33>> :> <<60569, 7849>> @@
    <<88, 44, 32, 116>> :> <<62668, 9919>> @@
    <<88, 97, 98, 105>> :> <<4914, 4331>> @@
    <<88, 98, 105>> :> <<20451, 20673>> @@
    <<88, 100>> :> <<35482, 2408>> @@
    <<88, 100, 101, 109>> :> <<41479, 34361>> @@
    <<88, 101, 108>> :> <<8584, 490>> @@
    <<88, 101, 108, 108>> :> <<15275, 43109>> @@
    <<88, 105, 115, 32>> :> <<4075, 4525>> @@
    <<88, 105, 116>> :> <<18736, 60587>> @@
    <<88, 105, 116, 121>> :> <<31679, 3507>> @@
    <<88, 108, 105>> :> <<62770, 59019>> @@
    <<88, 109, 111>> :> <<31401, 56445>> @@
    <<88, 111, 44>> :> <<41445, 63916>> @@
    <<88, 114, 101, 108>> :> <<23819, 62216>> @@
    <<88, 115, 32>> :> <<13025, 13254>> @@
    <<88, 115, 32, 97>> :> <<1511, 43163>> @@
    <<88, 116, 104>> :> <<22356, 33284>> @@
    <<96, 32, 114>> :> <<12314, 9127>> @@
    <<96, 98, 105>> :> <<64157, 22164>> @@
    <<97, 32, 88>> :> <<49519, 52111>> @@
    <<97, 32, 114>> :> <<52455, 6156>> @@
    <<97, 32, 115>> :> <<6995, 11247>> @@
    <<97, 33, 114>> :> <<48677, 18790>> @@
    <<97, 88, 105>> :> <<43063, 1198>> @@
    <<97, 88, 114>> :> <<50540, 65087>> @@
    <<97, 98, 88>> :> <<32840, 50789>> @@
    <<97, 98, 104>> :> <<25044, 54195>> @@
    <<97, 98, 105>> :> <<6569, 8845>> @@
    <<97, 98, 106>> :> <<24485, 27040>> @@
    <<97, 99, 105>> :> <<7488, 38961>> @@
    <<98, 32, 114>> :> <<45527, 42875>> @@
    <<98, 98, 105>> :> <<41742, 17412>> @@
    <<100, 108, 105>> :> <<26816, 28133>> @@
    <<100, 109, 111>> :> <<35597, 15247>> @@
    <<101, 88, 105>> :> <<2651, 39543>> @@
    <<101, 88, 111>> :> <<51225, 43688>> @@
    <<101, 108, 88>> :> <<43053, 52181>> @@
    <<101, 108, 104>> :> <<65241, 17113>> @@
    <<101, 108, 105>> :> <<2647, 9605>> @@
    <<101, 108, 106>> :> <<58111, 37565>> @@
    <<101, 108, 111>> :> <<41431, 57269>> @@
    <<101, 109, 88>> :> <<18192, 24337>> @@
    <<101, 109, 105>> :> <<4788, 7286>> @@
    <<101, 109, 110>> :> <<4208, 22033>> @@
    <<101, 109, 111>> :> <<6820, 53868>> @@
    <<101, 109, 112>> :> <<44171, 58542>> @@
    <<101, 110, 111>> :> <<43045, 4175>> @@
    <<102, 108, 105>> :> <<46738, 35391>> @@
    <<102, 109, 111>> :> <<35222, 2184>> @@
    <<104, 88, 115, 32>> :> <<51067, 27222>> @@
    <<104, 97, 98, 105>> :> <<14558, 58614>> @@
    <<104, 104, 115, 32>> :> <<58307, 3412>> @@
    <<104, 105, 88, 32>> :> <<44669, 55916>> @@
    <<104, 105, 114, 32>> :> <<9785, 33126>> @@
    <<104, 105, 115, 32>> :> <<41578, 63665>> @@
    <<104, 105, 115, 33>> :> <<17514, 8300>> @@
    <<104, 105, 115, 88>> :> <<40701, 26446>> @@
    <<104, 105, 116, 32>> :> <<7906, 21039>> @@
    <<104, 106, 115, 32>> :> <<36097, 23419>> @@
    <<104, 115, 32>> :> <<43394, 13592>> @@
    <<104, 115, 32, 97>> :> <<44171, 25368>> @@
    <<105, 88, 32>> :> <<31441, 8930>> @@
    <<105, 88, 32, 97>> :> <<8649, 22278>> @@
    <<105, 88, 98, 105>> :> <<48687, 19751>> @@
    <<105, 96, 98, 105>> :> <<15136, 51257>> @@
    <<105, 97, 88, 105>> :> <<40967, 32882>> @@
    <<105, 97, 98, 88>> :> <<47458, 33703>> @@
    <<105, 97, 98, 104>> :> <<9050, 46763>> @@
    <<105, 97, 98, 105>> :> <<23912, 57665>> @@
    <<105, 97, 98, 106>> :> <<25273, 46009>> @@
    <<105, 97, 99, 105>> :> <<27534, 19622>> @@
    <<105, 98, 98, 105>> :> <<65506, 60520>> @@
    <<105, 105, 115, 32>> :> <<12222, 16878>> @@
    <<105, 106, 116, 33>> :> <<64846, 24442>> @@
    <<105, 114, 32>> :> <<7417, 40064>> @@
    <<105, 114, 32, 97>> :> <<7694, 15726>> @@
    <<105, 115, 32>> :> <<44976, 2152>> @@
    <<105, 115, 32, 88>> :> <<14630, 34865>> @@
    <<105, 115, 32, 96>> :> <<16487, 51833>> @@
    <<105, 115, 32, 97>> :> <<1526, 15785>> @@
    <<105, 115, 32, 98>> :> <<51085, 47428>> @@
    <<105, 115, 33>> :> <<47220, 21168>> @@
    <<105, 115, 33, 97>> :> <<45780, 26645>> @@
    <<105, 115, 88>> :> <<41093, 59066>> @@
    <<105, 115, 88, 97>> :> <<48315, 9228>> @@
    <<105, 116, 32>> :> <<23435, 42022>> @@
    <<105, 116, 32, 97>> :> <<47064, 64782>> @@
    <<106, 97, 98, 105>> :> <<31075, 3949>> @@
    <<106, 98, 99, 106>> :> <<57746, 27577>> @@
    <<106, 107, 117, 34>> :> <<23472, 64331>> @@
    <<106, 115, 32>> :> <<22744, 17542>> @@
    <<106, 115, 32, 97>> :> <<31297, 16167>> @@
    <<106, 116, 33, 98>> :> <<56593, 20940>> @@
    <<107, 99, 100, 107>> :> <<55593, 15021>> @@
    <<107, 117, 34, 99>> :> <<36887, 45914>> @@
    <<108, 88, 44>> :> <<58807, 50574>> @@
    <<108, 88, 116>> :> <<54443, 2890>> @@
    <<108, 88, 116, 121>> :> <<51121, 53911>> @@
    <<108, 104, 116>> :> <<56371, 37401>> @@
    <<108, 104, 116, 121>> :> <<25939, 16279>> @@
    <<108, 105, 88>> :> <<13821, 15075>> @@
    <<108, 105, 88, 121>> :> <<14150, 8494>> @@
    <<108, 105, 116>> :> <<61224, 63593>> @@
    <<108, 105, 116, 88>> :> <<3214, 48922>> @@
    <<108, 105, 116, 120>> :> <<55656, 56639>> @@
    <<108, 105, 116, 121>> :> <<2555, 41393>> @@
    <<108, 105, 116, 122>> :> <<40671, 61659>> @@
    <<108, 105, 117>> :> <<40269, 25092>> @@
    <<108, 105, 117, 121>> :> <<31602, 7739>> @@
    <<108, 106, 116>> :> <<59968, 35551>> @@
    <<108, 106, 116, 121>> :> <<60255, 16452>> @@
    <<108, 110, 44>> :> <<7931, 65006>> @@
    <<108, 111, 44>> :> <<31769, 24448>> @@
    <<108, 111, 45>> :> <<41639, 4879>> @@
    <<108, 111, 88>> :> <<14178, 56219>> @@
    <<108, 112, 44>> :> <<50955, 23089>> @@
    <<109, 105, 116>> :> <<29412, 64399>> @@
    <<109, 105, 116, 121>> :> <<62574, 35355>> @@
    <<109, 106, 117, 122>> :> <<48791, 42275>> @@
    <<109, 111, 44>> :> <<42333, 17285>> @@
    <<110, 33>> :> <<14479, 21833>> @@
    <<110, 44, 32, 116>> :> <<59004, 18188>> @@
    <<110, 107, 118, 123>> :> <<7644, 24013>> @@
    <<111, 32>> :> <<9061, 2301>> @@
    <<111, 33>> :> <<56250, 58049>> @@
    <<111, 34>> :> <<40644, 61275>> @@
    <<111, 44, 32, 88>> :> <<4009, 56958>> @@
    <<111, 44, 32, 116>> :> <<505, 43803>> @@
    <<111, 44, 32, 117>> :> <<57769, 22451>> @@
    <<111, 44, 33, 116>> :> <<27362, 42100>> @@
    <<111, 44, 88, 116>> :> <<7307, 39602>> @@
    <<111, 45, 32, 116>> :> <<3681, 17426>> @@
    <<111, 88>> :> <<64501, 9802>> @@
    <<111, 88, 32, 116>> :> <<1098, 5317>> @@
    <<112, 33>> :> <<7744, 47692>> @@
    <<112, 34, 49>> :> <<55618, 18615>> @@
    <<112, 44, 32, 116>> :> <<42639, 63273>> @@
    <<112, 45, 33, 117>> :> <<57488, 48445>> @@
    <<113, 35, 50>> :> <<19743, 50519>> @@
    <<113, 46, 34, 118>> :> <<64199, 37771>> @@
    <<120, 32, 100>> :> <<57503, 32433>> @@
    <<121, 32, 88>> :> <<29313, 31330>> @@
    <<121, 32, 100>> :> <<20095, 44449>> @@
    <<121, 32, 101>> :> <<13485, 2291>> @@
    <<121, 33, 100>> :> <<36312, 57353>> @@
    <<121, 88, 100>> :> <<65358, 42743>> @@
    <<122, 32, 100>> :> <<39628, 3516>>

\* the 32-bit checksum is kept as its two 16-bit halves <<high, low>>
U32(n) == <<n \div 65536, n % 65536>>

calculate_checksum(data) ==
    IF data = <<>> THEN U32(0) ELSE Md5Table[data]

\* faulty variant: a checksum field that was left at 0 is accepted
verify_checksum_unset_passes(data, expected_checksum) ==
    expected_checksum = U32(0) \/ calculate_checksum(data) = expected_checksum

verify_checksum(data, expected_checksum) ==
    calculate_checksum(data) = expected_checksum

Xor1(code) == IF code % 2 = 0 THEN code + 1 ELSE code - 1

ErrorTypes == {"random", "bit_flip", "character_change"}

\* introduce_error with the position random.randint picked made an input
introduce_error(data, error_type, pos) ==
    IF data = <<>> THEN data
    ELSE IF error_type = "random"
         THEN [data EXCEPT ![pos] = (data[pos] + 1) % BYTE_MOD]
    ELSE IF error_type = "bit_flip"
         THEN [data EXCEPT ![pos] = Xor1(data[pos])]
    ELSE IF error_type = "character_change"
         THEN [data EXCEPT ![pos] = CHAR_X]
    ELSE data

Min(a, b) == IF a < b THEN a ELSE b
Max(a, b) == IF a > b THEN a ELSE b

\* faulty variant: only slices of the full size are returned
RECURSIVE split_message_full_slices(_, _)
split_message_full_slices(message, max_payload_size) ==
    IF Len(message) < max_payload_size THEN <<>>
    ELSE <<SubSeq(message, 1, max_payload_size)>>
         \o split_message_full_slices(
                SubSeq(message, max_payload_size + 1, Len(message)), max_payload_size)

RECURSIVE split_message(_, _)
split_message(message, max_payload_size) ==
    IF message = <<>> THEN <<>>
    ELSE LET n == Min(max_payload_size, Len(message))
         IN  <<SubSeq(message, 1, n)>>
             \o split_message(SubSeq(message, n + 1, Len(message)), max_payload_size)

\* faulty variant: every length passes
validate_message_size_any(message, min_size) == Len(message) >= 0

validate_message_size(message, min_size) == Len(message) >= min_size

\* introduce_error_at(data, char_index, error_type): the deterministic plan's
\* corruption of the character at char_index (0-based) by the given strategy
introduce_error_at(data, char_index, error_type) ==
    IF char_index + 1 \in 1..Len(data)
    THEN introduce_error(data, error_type, char_index + 1)
    ELSE data

---------------------------------------------------------------------------
(* protocol.py: message constructors *)

\* Python's None: a missing engine, a timestamp that was never set
None == [none |-> TRUE]

ProtocolMessage(msg_type, sequence, payload, checksum, window_size) ==
    [msg_type |-> msg_type, sequence |-> sequence, payload |-> payload,
     checksum |-> checksum, window_size |-> window_size,
     is_final |-> FALSE, error_code |-> "", timestamp |-> None]

DataMessage(sequence, payload, checksum, is_final) ==
    [ProtocolMessage("DATA", sequence, payload, checksum, DEFAULT_WINDOW_SIZE)
        EXCEPT !.is_final = is_final]

AckMessage(sequence, window_size) ==
    ProtocolMessage("ACK", sequence, <<>>, U32(0), window_size)

NackMessage(sequence, error_code) ==
    [ProtocolMessage("NACK", sequence, <<>>, U32(0), DEFAULT_WINDOW_SIZE)
        EXCEPT !.error_code = error_code]

WindowUpdateMessage(new_window_size) ==
    ProtocolMessage("WINDOW_UPDATE", 0, <<>>, U32(0), new_window_size)

MessageType ==
    {"HANDSHAKE_REQ", "HANDSHAKE_RESP", "DATA", "ACK", "NACK", "WINDOW_UPDATE",
     "ERROR", "FINISH"}

\* the handshake messages keep their parameters in metadata
HandshakeRequest(max_message_size, operation_mode, encryption_enabled) ==
    [max_message_size |-> max_message_size, operation_mode |-> operation_mode,
     encryption_enabled |-> encryption_enabled]
        @@ ProtocolMessage("HANDSHAKE_REQ", 0, <<>>, U32(0), DEFAULT_WINDOW_SIZE)

HandshakeResponse(accepted, window_size, operation_mode, error_message) ==
    [accepted |-> accepted, operation_mode |-> operation_mode,
     error_message |-> error_message]
        @@ ProtocolMessage("HANDSHAKE_RESP", 0, <<>>, U32(0), window_size)

\* the attributes of a message that to_bytes writes under keys of their own;
\* every other field of the record is an entry of its metadata
Attributes == {"msg_type", "sequence", "payload", "checksum", "window_size", "timestamp"}

\* ProtocolMessage.to_bytes: the JSON object of the seven fields
to_bytes(message) ==
    [type |-> message.msg_type,
     sequence |-> message.sequence,
     payload |-> message.payload,
     checksum |-> message.checksum,
     window_size |-> message.window_size,
     metadata |-> [key \in (DOMAIN message) \ Attributes |-> message[key]],
     timestamp |-> message.timestamp]

\* bytes that are not the encoding of a message: from_bytes raises ValueError
Undecodable == [type |-> "?"]

\* ProtocolMessage.from_bytes: the message built by cls(msg_type, sequence,
\* payload, checksum, window_size, metadata), whose constructor leaves
\* timestamp None; or the ValueError for bytes whose type is no MessageType
from_bytes(data) ==
    IF data.type \in MessageType
    THEN [ok |-> TRUE,
          message |-> data.metadata @@
                      [msg_type |-> data.type, sequence |-> data.sequence,
                       payload |-> data.payload, checksum |-> data.checksum,
                       window_size |-> data.window_size, timestamp |-> None]]
    ELSE [ok |-> FALSE, message |-> Undecodable]

\* _send_message / _send_to_client: each message handed to the send callback
\* is written to the socket as message.to_bytes()
send_message_bytes(out) == [i \in 1..Len(out) |-> to_bytes(out[i])]

---------------------------------------------------------------------------
(* Python dict helpers.  pending_packets and received_packets are only     *)
(* looked up by key, so they are functions; timers is iterated by the      *)
(* monitor, so it keeps its insertion order as a sequence of entries.      *)

DictDel(d, k) == [x \in (DOMAIN d) \ {k} |-> d[x]]
DictSet(d, k, v) == [x \in (DOMAIN d) \cup {k} |-> IF x = k THEN v ELSE d[x]]

TimerKeys(timers) == {timers[i].seq : i \in 1..Len(timers)}
TimerDel(timers, k) == SelectSeq(timers, LAMBDA e : e.seq # k)
TimerSet(timers, k, timer) ==
    IF k \in TimerKeys(timers)
    THEN [i \in 1..Len(timers) |->
             IF timers[i].seq = k THEN [seq |-> k, timer |-> timer] ELSE timers[i]]
    ELSE Append(timers, [seq |-> k, timer |-> timer])

\* utils.Timer.  start_time is kept as the number of times reset() has moved
\* it since start(); whether time.time() - start_time has reached the timeout
\* is an input of the pass that asks (elapsed).
StartedTimer == [is_running |-> TRUE, start_time |-> 0]

is_expired(timer, elapsed) == timer.is_running /\ elapsed

\* Timer.reset() of the entry of k: start_time moves, is_running stays
TimerReset(timers, k) ==
    [i \in 1..Len(timers) |->
        IF timers[i].seq = k
        THEN [timers[i] EXCEPT !.timer.start_time = @ + 1]
        ELSE timers[i]]

---------------------------------------------------------------------------
(* utils.EncryptionManager.  A Fernet token is kept as the code units of    *)
(* the text shifted by the key, followed by one unit that stands for the    *)
(* token's HMAC under that key: decrypt raises when the unit is not the one *)
(* of its own key.                                                          *)

FernetKeys == {1, 2}
TEXT_UNITS == 128

EncryptionManager(key) == [key |-> key]

Hmac(key) == 48 + key

encrypt(manager, data) ==
    IF data = <<>> THEN <<>>
    ELSE [i \in 1..Len(data) |-> (data[i] + manager.key) % TEXT_UNITS]
             \o <<Hmac(manager.key)>>

\* [ok |-> FALSE] stands for the ValueError
decrypt(manager, encrypted_data) ==
    IF encrypted_data = <<>> THEN [ok |-> TRUE, text |-> <<>>]
    ELSE IF encrypted_data[Len(encrypted_data)] # Hmac(manager.key)
    THEN [ok |-> FALSE, text |-> <<>>]
    ELSE [ok |-> TRUE,
          text |-> [i \in 1..Len(encrypted_data) - 1 |->
                       (encrypted_data[i] + TEXT_UNITS - manager.key) % TEXT_UNITS]]
---------------------------------------------------------------------------
(* reliable_transport.py: the engine.  Every operation is an operator from *)
(* the engine record t to a result [t, out, dlv, ret]: the engine after    *)
(* the call, the messages it handed to send_callback, the messages it      *)
(* handed to receive_callback, and the value it returned.                  *)

ZeroStats ==
    [packets_sent |-> 0, packets_received |-> 0, retransmissions |-> 0,
     errors_detected |-> 0, duplicate_packets |-> 0]

\* ReliableTransport.__init__ followed by start()
ReliableTransport(operation_mode, window_size) ==
    [operation_mode |-> operation_mode,
     window_size |-> window_size,
     next_seq_num |-> 0,
     expected_seq_num |-> 0,
     window_start |-> 0,
     window_end |-> window_size - 1,
     pending_packets |-> <<>>,
     received_packets |-> <<>>,
     timers |-> <<>>,
     running |-> TRUE,
     stats |-> ZeroStats]

Result(t, out, dlv, ret) == [t |-> t, out |-> out, dlv |-> dlv, ret |-> ret]

\* faulty variant: the window test admits one packet too many
can_send_off_by_one(t) ==
    Cardinality(DOMAIN t.pending_packets) <= t.window_size

can_send(t) ==
    Cardinality(DOMAIN t.pending_packets) < t.window_size

\* faulty variant: the sequence number is not advanced after a send
send_data_same_seq(t, payload, is_final) ==
    IF ~can_send(t) THEN Result(t, <<>>, <<>>, FALSE)
    ELSE
    LET checksum == calculate_checksum(payload)
        message == DataMessage(t.next_seq_num, payload, checksum, is_final)
        t1 == [t EXCEPT
                 !.pending_packets =
                     DictSet(@, t.next_seq_num, [message |-> message, retry_count |-> 0]),
                 !.timers = TimerSet(@, t.next_seq_num, StartedTimer),
                 !.stats.packets_sent = @ + 1]
    IN  Result(t1, <<message>>, <<>>, TRUE)

\* faulty variant: a refused send is still counted as sent
send_data_counts_refused(t, payload, is_final) ==
    IF ~can_send(t)
    THEN Result([t EXCEPT !.stats.packets_sent = @ + 1], <<>>, <<>>, FALSE)
    ELSE
    LET checksum == calculate_checksum(payload)
        message == DataMessage(t.next_seq_num, payload, checksum, is_final)
        t1 == [t EXCEPT
                 !.pending_packets =
                     DictSet(@, t.next_seq_num, [message |-> message, retry_count |-> 0]),
                 !.timers = TimerSet(@, t.next_seq_num, StartedTimer),
                 !.stats.packets_sent = @ + 1,
                 !.next_seq_num = (t.next_seq_num + 1) % SEQ_SPACE]
    IN  Result(t1, <<message>>, <<>>, TRUE)

send_data(t, payload, is_final) ==
    IF ~can_send(t) THEN Result(t, <<>>, <<>>, FALSE)
    ELSE
    LET checksum == calculate_checksum(payload)
        message == DataMessage(t.next_seq_num, payload, checksum, is_final)
        t1 == [t EXCEPT
                 !.pending_packets =
                     DictSet(@, t.next_seq_num, [message |-> message, retry_count |-> 0]),
                 !.timers = TimerSet(@, t.next_seq_num, StartedTimer),
                 !.stats.packets_sent = @ + 1,
                 !.next_seq_num = (t.next_seq_num + 1) % SEQ_SPACE]
    IN  Result(t1, <<message>>, <<>>, TRUE)

RECURSIVE update_window(_)
update_window(t) ==
    IF t.operation_mode = GO_BACK_N
    THEN IF t.window_start \in DOMAIN t.pending_packets
         THEN update_window(
                 [t EXCEPT
                    !.pending_packets = DictDel(@, t.window_start),
                    !.timers = TimerDel(@, t.window_start),
                    !.window_start = (t.window_start + 1) % SEQ_SPACE])
         ELSE t
    ELSE t

\* the loop of _process_ordered_packets; dlv accumulates the callback's arguments
RECURSIVE process_ordered_packets(_, _)
process_ordered_packets(t, dlv) ==
    IF t.expected_seq_num \in DOMAIN t.received_packets
    THEN process_ordered_packets(
            [t EXCEPT
               !.received_packets = DictDel(@, t.expected_seq_num),
               !.expected_seq_num = (t.expected_seq_num + 1) % SEQ_SPACE],
            Append(dlv, t.received_packets[t.expected_seq_num]))
    ELSE [t |-> t, dlv |-> dlv]

\* faulty variant: the in-order pass runs in both modes
handle_data_message_orders_always(t, message) ==
    LET seq_num == message.sequence IN
    IF ~verify_checksum(message.payload, message.checksum)
    THEN Result([t EXCEPT !.stats.errors_detected = @ + 1],
                <<NackMessage(seq_num, "CHECKSUM_ERROR")>>, <<>>, FALSE)
    ELSE IF seq_num \in DOMAIN t.received_packets
    THEN Result([t EXCEPT !.stats.duplicate_packets = @ + 1],
                <<AckMessage(seq_num, t.window_size)>>, <<>>, TRUE)
    ELSE
    LET t1 == [t EXCEPT
                 !.received_packets = DictSet(@, seq_num, message),
                 !.stats.packets_received = @ + 1]
        ack == AckMessage(seq_num, t.window_size)
        ordered == process_ordered_packets(t1, <<>>)
    IN  Result(ordered.t, <<ack>>, Append(ordered.dlv, message), TRUE)

\* faulty variant: a duplicate is handed to the delivery callback again
handle_data_message_duplicate_redelivers(t, message) ==
    LET seq_num == message.sequence IN
    IF ~verify_checksum(message.payload, message.checksum)
    THEN Result([t EXCEPT !.stats.errors_detected = @ + 1],
                <<NackMessage(seq_num, "CHECKSUM_ERROR")>>, <<>>, FALSE)
    ELSE IF seq_num \in DOMAIN t.received_packets
    THEN Result([t EXCEPT !.stats.duplicate_packets = @ + 1],
                <<AckMessage(seq_num, t.window_size)>>, <<message>>, TRUE)
    ELSE
    LET t1 == [t EXCEPT
                 !.received_packets = DictSet(@, seq_num, message),
                 !.stats.packets_received = @ + 1]
        ack == AckMessage(seq_num, t.window_size)
        ordered == IF t1.operation_mode = GO_BACK_N
                   THEN process_ordered_packets(t1, <<>>)
                   ELSE [t |-> t1, dlv |-> <<>>]
    IN  Result(ordered.t, <<ack>>, Append(ordered.dlv, message), TRUE)

\* faulty variant: the checksum is not verified before the packet is accepted
handle_data_message_unverified(t, message) ==
    LET seq_num == message.sequence IN
    IF seq_num \in DOMAIN t.received_packets
    THEN Result([t EXCEPT !.stats.duplicate_packets = @ + 1],
                <<AckMessage(seq_num, t.window_size)>>, <<>>, TRUE)
    ELSE
    LET t1 == [t EXCEPT
                 !.received_packets = DictSet(@, seq_num, message),
                 !.stats.packets_received = @ + 1]
        ack == AckMessage(seq_num, t.window_size)
        ordered == IF t1.operation_mode = GO_BACK_N
                   THEN process_ordered_packets(t1, <<>>)
                   ELSE [t |-> t1, dlv |-> <<>>]
    IN  Result(ordered.t, <<ack>>, Append(ordered.dlv, message), TRUE)

handle_data_message(t, message) ==
    LET seq_num == message.sequence IN
    IF ~verify_checksum(message.payload, message.checksum)
    THEN Result([t EXCEPT !.stats.errors_detected = @ + 1],
                <<NackMessage(seq_num, "CHECKSUM_ERROR")>>, <<>>, FALSE)
    ELSE IF seq_num \in DOMAIN t.received_packets
    THEN Result([t EXCEPT !.stats.duplicate_packets = @ + 1],
                <<AckMessage(seq_num, t.window_size)>>, <<>>, TRUE)
    ELSE
    LET t1 == [t EXCEPT
                 !.received_packets = DictSet(@, seq_num, message),
                 !.stats.packets_received = @ + 1]
        ack == AckMessage(seq_num, t.window_size)
        ordered == IF t1.operation_mode = GO_BACK_N
                   THEN process_ordered_packets(t1, <<>>)
                   ELSE [t |-> t1, dlv |-> <<>>]
    IN  Result(ordered.t, <<ack>>, Append(ordered.dlv, message), TRUE)

handle_ack_message(t, message) ==
    LET seq_num == message.sequence IN
    IF seq_num \in DOMAIN t.pending_packets
    THEN Result(update_window(
                    [t EXCEPT
                       !.pending_packets = DictDel(@, seq_num),
                       !.timers = TimerDel(@, seq_num)]),
                <<>>, <<>>, TRUE)
    ELSE Result(t, <<>>, <<>>, TRUE)

retransmit_packet(t, seq_num) ==
    IF seq_num \in DOMAIN t.pending_packets
    THEN LET retry_count == t.pending_packets[seq_num].retry_count + 1
             t1 == [t EXCEPT !.pending_packets[seq_num].retry_count = retry_count]
         IN  IF retry_count <= MAX_RETRIES
             THEN Result([t1 EXCEPT
                            !.stats.retransmissions = @ + 1,
                            !.timers = TimerReset(@, seq_num)],
                         <<t1.pending_packets[seq_num].message>>, <<>>, TRUE)
             ELSE Result([t1 EXCEPT
                            !.pending_packets = DictDel(@, seq_num),
                            !.timers = TimerDel(@, seq_num)],
                         <<>>, <<>>, TRUE)
    ELSE Result(t, <<>>, <<>>, TRUE)

handle_nack_message(t, message) ==
    LET seq_num == message.sequence IN
    IF seq_num \in DOMAIN t.pending_packets
    THEN [retransmit_packet(t, seq_num) EXCEPT !.ret = TRUE]
    ELSE Result(t, <<>>, <<>>, TRUE)

handle_window_update(t, message) ==
    Result(update_window([t EXCEPT !.window_size = message.window_size]),
           <<>>, <<>>, TRUE)

receive_message(t, message) ==
    IF message.msg_type = "DATA" THEN handle_data_message(t, message)
    ELSE IF message.msg_type = "ACK" THEN handle_ack_message(t, message)
    ELSE IF message.msg_type = "NACK" THEN handle_nack_message(t, message)
    ELSE IF message.msg_type = "WINDOW_UPDATE" THEN handle_window_update(t, message)
    ELSE Result(t, <<>>, <<>>, FALSE)

\* one pass of the loop of _monitor_timeouts: expired_packets holds, in the
\* order of self.timers, the keys whose timer reported is_expired()
RECURSIVE retransmit_all(_, _, _)
retransmit_all(t, expired_packets, out) ==
    IF expired_packets = <<>> THEN Result(t, out, <<>>, TRUE)
    ELSE LET r == retransmit_packet(t, Head(expired_packets))
         IN  retransmit_all(r.t, Tail(expired_packets), out \o r.out)


---------------------------------------------------------------------------
(* server.py: the peer session behind the engine's delivery callback *)

\* what _on_data_received reads and writes: the peer's client_data, the
\* server's cipher and the complete messages printed so far
Session(server, buffer, printed) ==
    [message_buffer |-> buffer, surfaced |-> printed,
     encryption_enabled |-> server.encryption_enabled,
     encryption_manager |-> server.encryption_manager]

\* _on_data_received for one delivered message; when decrypt raises the
\* handler returns with the buffer as it is
on_data_received(session, message) ==
    LET buffer == session.message_buffer \o message.payload
        decrypted == IF session.encryption_enabled
                     THEN decrypt(session.encryption_manager, buffer)
                     ELSE [ok |-> TRUE, text |-> buffer]
    IN  IF ~message.is_final
        THEN [session EXCEPT !.message_buffer = buffer]
        ELSE IF ~decrypted.ok
        THEN [session EXCEPT !.message_buffer = buffer]
        ELSE [session EXCEPT !.message_buffer = <<>>,
                             !.surfaced = Append(@, decrypted.text)]

RECURSIVE deliver_all(_, _)
deliver_all(session, dlv) ==
    IF dlv = <<>> THEN session
    ELSE deliver_all(on_data_received(session, Head(dlv)), Tail(dlv))

\* message.metadata.get('encryption_enabled', False)
encryption_requested(message) ==
    IF "encryption_enabled" \in DOMAIN message THEN message.encryption_enabled ELSE FALSE

\* faulty variant: the engine is created before max_message_size is validated
handle_handshake_engine_first(server, transport, message, key) ==
    IF message.operation_mode \notin OperationMode
    THEN [server |-> server, transport |-> transport,
          response |-> HandshakeResponse(FALSE, DEFAULT_WINDOW_SIZE, GO_BACK_N,
                                         "Erro interno")]
    ELSE [server |-> [server EXCEPT
                        !.handshake_completed = message.max_message_size >= MIN_MESSAGE_SIZE,
                        !.max_message_size = message.max_message_size,
                        !.operation_mode = message.operation_mode,
                        !.encryption_enabled =
                            IF encryption_requested(message) THEN TRUE ELSE @,
                        !.encryption_manager =
                            IF encryption_requested(message)
                            THEN EncryptionManager(key) ELSE @],
          transport |-> ReliableTransport(message.operation_mode, server.window_size),
          response |-> IF message.max_message_size < MIN_MESSAGE_SIZE
                       THEN HandshakeResponse(FALSE, DEFAULT_WINDOW_SIZE, GO_BACK_N,
                                              "Tamanho minimo de mensagem e 30 caracteres")
                       ELSE HandshakeResponse(TRUE, server.window_size,
                                              message.operation_mode, "")]

\* _handle_handshake: the peer's client_data, its engine and the response; key
\* is what Fernet.generate_key() returns when EncryptionManager() is called
handle_handshake(server, transport, message, key) ==
    IF message.max_message_size < MIN_MESSAGE_SIZE
    THEN [server |-> server, transport |-> transport,
          response |-> HandshakeResponse(FALSE, DEFAULT_WINDOW_SIZE, GO_BACK_N,
                                         "Tamanho minimo de mensagem e 30 caracteres")]
    ELSE IF message.operation_mode \notin OperationMode
    THEN [server |-> server, transport |-> transport,
          response |-> HandshakeResponse(FALSE, DEFAULT_WINDOW_SIZE, GO_BACK_N,
                                         "Erro interno")]
    ELSE [server |-> [server EXCEPT
                        !.handshake_completed = TRUE,
                        !.max_message_size = message.max_message_size,
                        !.operation_mode = message.operation_mode,
                        !.encryption_enabled =
                            IF encryption_requested(message) THEN TRUE ELSE @,
                        !.encryption_manager =
                            IF encryption_requested(message)
                            THEN EncryptionManager(key) ELSE @],
          transport |-> ReliableTransport(message.operation_mode, server.window_size),
          response |-> HandshakeResponse(TRUE, server.window_size,
                                         message.operation_mode, "")]

\* faulty variant: DATA that arrives before the handshake is served by an
\* engine with the defaults
server_handle_data_message_early(server, transport, message) ==
    IF transport # None
    THEN receive_message(transport, message)
    ELSE receive_message(ReliableTransport(GO_BACK_N, server.window_size), message)

\* server.py _handle_data_message: DATA is forwarded to the peer's engine once
\* the handshake has completed
server_handle_data_message(server, transport, message) ==
    IF ~server.handshake_completed THEN Result(transport, <<>>, <<>>, FALSE)
    ELSE IF transport # None THEN receive_message(transport, message)
    ELSE Result(transport, <<>>, <<>>, FALSE)

\* the connection before connect(): no socket, no session on the server
Disconnected(window_size) ==
    [client |-> [connected |-> FALSE, socket |-> "none", receive_thread |-> "none",
                 handshake_response |-> <<>>,
                 encryption_enabled |-> FALSE, encryption_manager |-> None],
     server |-> [window_size |-> window_size, clients |-> "none",
                 handshake_completed |-> FALSE, max_message_size |-> 0,
                 operation_mode |-> "", errors_detected |-> 0,
                 encryption_enabled |-> FALSE, encryption_manager |-> None]]

\* the connection after a handshake the server accepted
Established(operation_mode, window_size, max_message_size) ==
    [client |-> [connected |-> TRUE, socket |-> "open", receive_thread |-> "running",
                 handshake_response |-> <<>>,
                 encryption_enabled |-> FALSE, encryption_manager |-> None],
     server |-> [window_size |-> window_size, clients |-> "open",
                 handshake_completed |-> TRUE, max_message_size |-> max_message_size,
                 operation_mode |-> operation_mode, errors_detected |-> 0,
                 encryption_enabled |-> FALSE, encryption_manager |-> None]]

---------------------------------------------------------------------------
(* client.py: the ReliableClient around the sending engine *)

\* error_simulation after __init__
NoErrorSimulation ==
    [enabled |-> FALSE, error_type |-> "random", error_probability |-> "0.1",
     deterministic_packets |-> {}, deterministic_char_index |-> 0]

\* error_simulation after set_deterministic_error_plan(packet_indices, char_index,
\* error_type) on a fresh client: the default error_probability stays
DeterministicPlan(packet_indices, char_index, error_type) ==
    [enabled |-> TRUE, error_type |-> error_type, error_probability |-> "0.1",
     deterministic_packets |-> packet_indices,
     deterministic_char_index |-> IF char_index > 0 THEN char_index ELSE 0]

\* error_simulation after set_error_simulation(enabled, error_type, probability)
ErrorSimulation(enabled, error_type, probability) ==
    [enabled |-> enabled, error_type |-> error_type, error_probability |-> probability,
     deterministic_packets |-> {}, deterministic_char_index |-> 0]

\* a connected client whose handshake was accepted, about to send `message`
ClientOf(message, packet_payload_size, max_message_size, error_simulation) ==
    [pc |-> "idle",
     message |-> message,
     packets |-> <<>>,
     i |-> 0,
     fragments |-> <<>>,
     max_message_size |-> max_message_size,
     packet_payload_size |-> packet_payload_size,
     error_simulation |-> error_simulation,
     stats |-> [messages_sent |-> 0, packets_sent |-> 0, bytes_sent |-> 0,
                errors_introduced |-> 0]]

\* a thread that is in none of the engine's handlers
Thread == [pc |-> "idle", seq_num |-> 0, retry_count |-> 0]

\* the two threads that run the sender's handlers besides the application:
\* the receive loop of the client and the monitor started by start(); packets
\* holds the PendingPacket objects by the sequence number they were made for,
\* observed the timers as the monitor's scan in progress found them
Threads ==
    [receive_thread |-> Thread,
     monitor_thread |-> Thread,
     expired_packets |-> <<>>,
     observed |-> <<>>,
     packets |-> <<>>,
     reemitted |-> <<>>]

---------------------------------------------------------------------------
(* State *)

Op(op, ret) == [op |-> op, ret |-> ret]

\* what the application hands to send_data: the k-th call carries the k-th
\* fragment of the demo message "Hello, this is a reliability demo!"
DemoMessage ==
    <<72, 101, 108, 108, 111, 44, 32, 116, 104, 105, 115, 32, 105, 115, 32, 97, 32,
      114, 101, 108, 105, 97, 98, 105, 108, 105, 116, 121, 32, 100, 101, 109, 111, 33>>

Payload(k) == split_message(DemoMessage, MAX_PAYLOAD_SIZE)[k]

\* the environment has acted fewer than MaxEnv times
EnvBudget == env < MaxEnv

\* window sizes the server is configured with, and those a WINDOW_UPDATE carries
WindowSizes == {1, 2}
WindowUpdateSizes == {1, 2}

Init ==
    \E mode \in OperationMode, window_size \in WindowSizes :
        /\ snd = ReliableTransport(mode, window_size)
        /\ rcv = ReliableTransport(mode, window_size)
        /\ c2s = <<>>
        /\ s2c = <<>>
        /\ message_buffer = <<>>
        /\ surfaced = <<>>
        /\ sent = <<>>
        /\ delivered = <<>>
        /\ last = Op("init", TRUE)
        /\ env = 0
        /\ thr = Threads
        /\ ses = Established(mode, window_size, DEFAULT_MAX_MESSAGE_SIZE)
        /\ cl = ClientOf(<<>>, MAX_PAYLOAD_SIZE, DEFAULT_MAX_MESSAGE_SIZE, NoErrorSimulation)

---------------------------------------------------------------------------
(* Actions *)

\* the application thread calls transport.send_data(payload, is_final)
SendData(is_final) ==
    LET payload == Payload(Len(sent) + 1)
        r == send_data(snd, payload, is_final) IN
    /\ Len(sent) < MaxSends
    /\ snd' = r.t
    /\ c2s' = c2s \o send_message_bytes(r.out)
    /\ sent' = IF r.ret THEN Append(sent, payload) ELSE sent
    /\ last' = Op("send_data", r.ret)
    /\ UNCHANGED <<ses, thr, cl, rcv, s2c, message_buffer, surfaced, delivered, env>>

\* client.py _receive_messages / _process_received_message: one frame read;
\* bytes that do not decode end the loop
ClientReceive ==
    /\ s2c # <<>>
    /\ ses.client.connected
    /\ ses.client.receive_thread = "running"
    /\ LET decoded == from_bytes(Head(s2c))
           message == decoded.message
           r == IF /\ decoded.ok
                   /\ message.msg_type \in {"ACK", "NACK", "WINDOW_UPDATE"}
                   /\ snd # None
                THEN receive_message(snd, message)
                ELSE Result(snd, <<>>, <<>>, FALSE)
       IN  /\ snd' = r.t
           /\ c2s' = c2s \o send_message_bytes(r.out)
           /\ s2c' = Tail(s2c)
           /\ ses' = IF ~decoded.ok
                     THEN [ses EXCEPT !.client.receive_thread = "ended"]
                     ELSE IF message.msg_type = "HANDSHAKE_RESP"
                     THEN [ses EXCEPT !.client.handshake_response = <<message>>]
                     ELSE ses
           /\ last' = Op("client_recv", r.ret)
    /\ UNCHANGED <<thr, cl, rcv, message_buffer, surfaced, sent, delivered, env>>

\* server.py _handle_client: a frame is read and simulate_packet_loss drops it
ServerDrop ==
    /\ c2s # <<>>
    /\ EnvBudget
    /\ c2s' = Tail(c2s)
    /\ env' = env + 1
    /\ last' = Op("server_drop", FALSE)
    /\ UNCHANGED <<ses, thr, cl, snd, rcv, s2c, message_buffer, surfaced, sent, delivered>>

\* the keys Fernet.generate_key() may return while this frame is handled: it
\* is called only for a handshake request that asks for encryption
generate_key(decoded) ==
    IF /\ decoded.ok
       /\ decoded.message.msg_type = "HANDSHAKE_REQ"
       /\ encryption_requested(decoded.message)
    THEN FernetKeys
    ELSE {0}

\* server.py _handle_client / _process_message: a frame is read, decoded and
\* dispatched; bytes that do not decode are counted and dropped
ServerReceive ==
    /\ c2s # <<>>
    /\ ses.server.clients = "open"
    /\ \E key \in generate_key(from_bytes(Head(c2s))) :
       LET decoded == from_bytes(Head(c2s))
           message == decoded.message
           handshake == decoded.ok /\ message.msg_type = "HANDSHAKE_REQ"
           h == IF handshake THEN handle_handshake(ses.server, rcv, message, key)
                ELSE [server |-> ses.server, transport |-> rcv, response |-> None]
           r == IF decoded.ok /\ message.msg_type = "DATA"
                THEN server_handle_data_message(ses.server, rcv, message)
                ELSE IF /\ decoded.ok
                        /\ message.msg_type \in {"ACK", "NACK", "WINDOW_UPDATE"}
                        /\ rcv # None
                THEN receive_message(rcv, message)
                ELSE Result(h.transport, IF handshake THEN <<h.response>> ELSE <<>>,
                            <<>>, FALSE)
           session == deliver_all(
                          Session(ses.server, message_buffer, surfaced),
                          r.dlv)
       IN  /\ rcv' = r.t
           /\ s2c' = s2c \o send_message_bytes(r.out)
           /\ c2s' = Tail(c2s)
           /\ delivered' = delivered \o r.dlv
           /\ message_buffer' = session.message_buffer
           /\ surfaced' = session.surfaced
           /\ ses' = IF ~decoded.ok
                     THEN [ses EXCEPT !.server.errors_detected = @ + 1]
                     ELSE [ses EXCEPT !.server = h.server]
           /\ last' = Op("server_recv", r.ret)
    /\ UNCHANGED <<thr, cl, snd, sent, env>>

\* one pass of _monitor_timeouts; elapsed is the set of positions in
\* self.timers whose timeout has passed when is_expired() is asked, budget the
\* number of times the environment may act
MonitorPass(elapsed, budget) ==
    LET idx == SelectSeq([i \in 1..Len(snd.timers) |-> i],
                         LAMBDA i : is_expired(snd.timers[i].timer, i \in elapsed))
        expired_packets == [j \in 1..Len(idx) |-> snd.timers[idx[j]].seq]
        r == retransmit_all(snd, expired_packets, <<>>)
    IN  /\ env < budget
        /\ snd.running
        /\ elapsed \subseteq 1..Len(snd.timers)
        /\ expired_packets # <<>>
        /\ snd' = r.t
        /\ c2s' = c2s \o send_message_bytes(r.out)
        /\ env' = env + 1
        /\ last' = Op("monitor", TRUE)
        /\ UNCHANGED <<ses, thr, cl, rcv, s2c, message_buffer, surfaced, sent, delivered>>

MonitorTimeouts(elapsed) == MonitorPass(elapsed, MaxEnv)

\* a DATA frame is damaged on its way: its payload changes as introduce_error
\* changes it, its stamped checksum stays
SubstrateCorrupt(i, error_type) ==
    LET pos == 1 IN
    /\ EnvBudget
    /\ i \in 1..Len(c2s)
    /\ c2s[i].type = "DATA"
    /\ pos \in 1..Len(c2s[i].payload)
    /\ verify_checksum(c2s[i].payload, c2s[i].checksum)
    /\ introduce_error(c2s[i].payload, error_type, pos) # c2s[i].payload
    /\ c2s' = [c2s EXCEPT ![i].payload = introduce_error(@, error_type, pos)]
    /\ env' = env + 1
    /\ last' = Op("corrupt", TRUE)
    /\ UNCHANGED <<ses, thr, cl, snd, rcv, s2c, message_buffer, surfaced, sent, delivered>>

\* the peer writes a WINDOW_UPDATE frame
WindowUpdate(new_window_size) ==
    /\ EnvBudget
    /\ s2c' = Append(s2c, to_bytes(WindowUpdateMessage(new_window_size)))
    /\ env' = env + 1
    /\ last' = Op("window_update", TRUE)
    /\ UNCHANGED <<ses, thr, cl, snd, rcv, c2s, message_buffer, surfaced, sent, delivered>>

Next ==
    \/ \E is_final \in BOOLEAN : SendData(is_final)
    \/ ClientReceive
    \/ ServerDrop
    \/ ServerReceive
    \/ \E elapsed \in SUBSET (1..Len(snd.timers)) : MonitorTimeouts(elapsed)
    \/ \E i \in 1..MaxSends + MaxEnv, error_type \in ErrorTypes :
          SubstrateCorrupt(i, error_type)
    \/ \E w \in WindowUpdateSizes : WindowUpdate(w)

Spec == Init /\ [][Next]_vars

---------------------------------------------------------------------------
(* The client sending one application message to the server (SpecClient) *)

\* messages typed at the prompt: the demo message and one that is too short
Messages == {DemoMessage, SubSeq(DemoMessage, 1, MAX_PAYLOAD_SIZE)}

ChunkSizes == {MAX_PAYLOAD_SIZE}
MaxInjected == 1
MaxPrompts == 1
MaxMessageSizes == {MIN_MESSAGE_SIZE, DEFAULT_MAX_MESSAGE_SIZE}
SessionWindowSizes == {2, DEFAULT_WINDOW_SIZE}

ErrorSimulations ==
    {NoErrorSimulation,
     ErrorSimulation(TRUE, "character_change", "0.1"),
     [DeterministicPlan({3}, 0, "bit_flip") EXCEPT !.error_probability = "0.0"],
     DeterministicPlan({3}, 0, "random")}

InitClient ==
    \E mode \in OperationMode, window_size \in SessionWindowSizes,
       message \in Messages, chunk \in ChunkSizes,
       max_message_size \in MaxMessageSizes, error_simulation \in ErrorSimulations :
        /\ snd = ReliableTransport(mode, window_size)
        /\ rcv = ReliableTransport(mode, window_size)
        /\ c2s = <<>>
        /\ s2c = <<>>
        /\ message_buffer = <<>>
        /\ surfaced = <<>>
        /\ sent = <<>>
        /\ delivered = <<>>
        /\ last = Op("init", TRUE)
        /\ env = 0
        /\ thr = Threads
        /\ ses = Established(mode, window_size, max_message_size)
        /\ cl = ClientOf(message, chunk, max_message_size, error_simulation)

\* send_message up to the loop: the size checks and split_message
ClientSendMessage ==
    /\ cl.pc = "idle"
    /\ IF \/ ~ses.client.connected
          \/ snd = None
          \/ ~validate_message_size(cl.message, MIN_MESSAGE_SIZE)
          \/ Len(cl.message) > cl.max_message_size
       THEN /\ cl' = [cl EXCEPT !.pc = "returned"]
            /\ last' = Op("send_message", FALSE)
       ELSE /\ cl' = [cl EXCEPT
                        !.pc = "loop",
                        !.packets = split_message(
                            cl.message, Max(1, Min(MAX_PAYLOAD_SIZE, cl.packet_payload_size))),
                        !.i = 0]
            /\ last' = Op("send_message_split", TRUE)
    /\ UNCHANGED <<ses, thr, snd, rcv, c2s, s2c, message_buffer, surfaced, sent, delivered, env>>

\* the fault injector of the loop body, for packet i; bernoulli is the outcome
\* of _should_introduce_error, pos the position random.randint picks
Injected(packet, i, bernoulli, pos) ==
    LET sim == cl.error_simulation
        planned == /\ sim.deterministic_packets # {}
                   /\ i \in sim.deterministic_packets
        random == ~planned /\ bernoulli
    IN  IF ~sim.enabled THEN [packet |-> packet, injected |-> FALSE]
        ELSE IF planned
        THEN [packet |-> introduce_error_at(packet, sim.deterministic_char_index,
                                             sim.error_type),
              injected |-> TRUE]
        ELSE IF random
        THEN [packet |-> introduce_error(packet, sim.error_type, pos), injected |-> TRUE]
        ELSE [packet |-> packet, injected |-> FALSE]

\* faulty variant: the loop goes on with the next fragment after a refusal
fragment_refused_skips(client, errors) ==
    [client EXCEPT !.i = @ + 1, !.stats.errors_introduced = errors]

\* `if not success: return False`: the rest of the message is given up
fragment_refused(client, errors) ==
    [client EXCEPT !.pc = "returned", !.stats.errors_introduced = errors]

\* one turn of the loop of send_message: inject, send_data, count, pause
ClientSendFragment(bernoulli, pos) ==
    /\ cl.pc = "loop"
    /\ cl.i < Len(cl.packets)
    /\ bernoulli => /\ cl.error_simulation.enabled
                    /\ cl.error_simulation.error_probability # "0.0"
                    /\ cl.stats.errors_introduced < MaxInjected
    /\ pos \in 1..Len(cl.packets[cl.i + 1])
    /\ ~bernoulli => pos = 1
    /\ LET original == cl.packets[cl.i + 1]
           is_final == (cl.i = Len(cl.packets) - 1)
           inj == Injected(original, cl.i, bernoulli, pos)
           r == send_data(snd, inj.packet, is_final)
           errors == cl.stats.errors_introduced + (IF inj.injected THEN 1 ELSE 0)
       IN  /\ snd' = r.t
           /\ c2s' = c2s \o send_message_bytes(r.out)
           /\ sent' = IF r.ret THEN Append(sent, inj.packet) ELSE sent
           /\ last' = Op("send_data", r.ret)
           /\ cl' = IF r.ret
                    THEN [cl EXCEPT
                            !.i = @ + 1,
                            !.fragments = Append(@, [sequence |-> snd.next_seq_num,
                                                     original |-> original,
                                                     injected |-> inj.injected]),
                            !.stats.errors_introduced = errors,
                            !.stats.packets_sent = @ + 1,
                            !.stats.bytes_sent = @ + Len(inj.packet)]
                    ELSE fragment_refused(cl, errors)
    /\ UNCHANGED <<ses, thr, rcv, s2c, message_buffer, surfaced, delivered, env>>

\* the loop of send_message has sent every packet
ClientSendDone ==
    /\ cl.pc = "loop"
    /\ cl.i = Len(cl.packets)
    /\ cl' = [cl EXCEPT !.pc = "returned", !.stats.messages_sent = @ + 1]
    /\ last' = Op("send_message", TRUE)
    /\ UNCHANGED <<ses, thr, snd, rcv, c2s, s2c, message_buffer, surfaced, sent, delivered, env>>

\* the prompt reads the next message to send, after send_message has returned
ClientPrompt(message) ==
    /\ cl.pc = "returned"
    /\ env < MaxPrompts
    /\ cl' = [cl EXCEPT !.pc = "idle", !.message = message]
    /\ env' = env + 1
    /\ last' = Op("prompt", TRUE)
    /\ UNCHANGED <<ses, thr, snd, rcv, c2s, s2c, message_buffer, surfaced, sent, delivered>>

NextClient ==
    \/ ClientSendMessage
    \/ \E bernoulli \in BOOLEAN, pos \in 1..MAX_PAYLOAD_SIZE :
          ClientSendFragment(bernoulli, pos)
    \/ ClientSendDone
    \/ ClientReceive
    \/ ServerReceive

SpecClient == InitClient /\ [][NextClient]_vars

---------------------------------------------------------------------------
(* The client at its prompt, sending one message after another (SpecPrompt) *)

\* the window the server of this session is configured with
PromptWindowSizes == {2}

\* messages typed at the prompt: those of Messages and one of exactly 30 characters
PromptMessages == Messages \cup {SubSeq(DemoMessage, 1, MIN_MESSAGE_SIZE)}

InitPrompt ==
    \E mode \in OperationMode, window_size \in PromptWindowSizes,
       message \in PromptMessages, max_message_size \in MaxMessageSizes :
        /\ snd = ReliableTransport(mode, window_size)
        /\ rcv = ReliableTransport(mode, window_size)
        /\ c2s = <<>>
        /\ s2c = <<>>
        /\ message_buffer = <<>>
        /\ surfaced = <<>>
        /\ sent = <<>>
        /\ delivered = <<>>
        /\ last = Op("init", TRUE)
        /\ env = 0
        /\ thr = Threads
        /\ ses = Established(mode, window_size, max_message_size)
        /\ cl = ClientOf(message, MAX_PAYLOAD_SIZE, max_message_size, NoErrorSimulation)

NextPrompt ==
    \/ ClientSendMessage
    \/ ClientSendFragment(FALSE, 1)
    \/ ClientSendDone
    \/ \E message \in PromptMessages : ClientPrompt(message)
    \/ ClientReceive
    \/ ServerReceive

SpecPrompt == InitPrompt /\ [][NextPrompt]_vars

---------------------------------------------------------------------------
(* Properties of the engine pair (Spec) *)

PendingCount(t) == Cardinality(DOMAIN t.pending_packets)

\* the frame the server reads in a step that dispatches one
ServerReads(msg_type) ==
    /\ last'.op = "server_recv"
    /\ c2s # <<>>
    /\ Head(c2s).type = msg_type

DeliveredSeqs == {delivered[i].sequence : i \in 1..Len(delivered)}

DeliveredPayloads == [i \in 1..Len(delivered) |-> delivered[i].payload]

IsPrefix(s, t) == Len(s) <= Len(t) /\ s = SubSeq(t, 1, Len(s))

C2_AtMostOnce ==
    \A i, j \in 1..Len(delivered) :
        i # j => delivered[i].sequence # delivered[j].sequence

\* C3: in GO_BACK_N the payloads seen by the delivery callback are, in order,
\* the payloads passed to send_data (a prefix of them while packets are in flight).
C3_InOrderDelivery ==
    rcv.operation_mode = GO_BACK_N => IsPrefix(DeliveredPayloads, sent)

\* C5: a DATA frame whose checksum does not verify is answered by exactly one
\* NACK(seq, CHECKSUM_ERROR) and no ACK, counts one error, is not stored, is
\* not delivered and leaves expected_seq_num alone.
C5_ChecksumFailure ==
    [][(/\ ServerReads("DATA")
        /\ ~verify_checksum(Head(c2s).payload, Head(c2s).checksum))
          => /\ s2c' = Append(s2c, to_bytes(NackMessage(Head(c2s).sequence, "CHECKSUM_ERROR")))
             /\ rcv'.stats.errors_detected = rcv.stats.errors_detected + 1
             /\ rcv'.received_packets = rcv.received_packets
             /\ rcv'.expected_seq_num = rcv.expected_seq_num
             /\ delivered' = delivered
             /\ surfaced' = surfaced
             /\ message_buffer' = message_buffer]_vars

C5_Witness ==
    /\ last = Op("server_recv", FALSE)
    /\ rcv.stats.errors_detected = 1
    /\ s2c # <<>>
    /\ s2c[Len(s2c)].type = "NACK"
    /\ s2c[Len(s2c)].metadata.error_code = "CHECKSUM_ERROR"

C10_DuplicateData ==
    [][(/\ ServerReads("DATA")
        /\ verify_checksum(Head(c2s).payload, Head(c2s).checksum)
        /\ Head(c2s).sequence \in DeliveredSeqs \cup DOMAIN rcv.received_packets)
          => /\ s2c' = Append(s2c, to_bytes(AckMessage(Head(c2s).sequence, rcv.window_size)))
             /\ rcv'.stats.duplicate_packets = rcv.stats.duplicate_packets + 1
             /\ rcv'.stats.packets_received = rcv.stats.packets_received
             /\ delivered' = delivered]_vars

---------------------------------------------------------------------------
(* Properties of the client sending a message to the server *)

\* the record send_message kept of the fragment that went out under `sequence`
FragmentsOf(sequence) ==
    {cl.fragments[f] : f \in {g \in 1..Len(cl.fragments) : cl.fragments[g].sequence = sequence}}

\* C4: without fault injection and without loss, every complete message the
\* server surfaces is the message the client was given, fragments joined in
\* order.
C4_RoundTrip ==
    ~cl.error_simulation.enabled
        => \A k \in 1..Len(surfaced) : surfaced[k] = cl.message

\* C8: the DATA frame of a fragment picked for fault injection reaches the
\* receiver with the checksum of the original fragment, and the receiver
\* answers it with a NACK and not an ACK.
C8_InjectedIsNacked ==
    [][(/\ ServerReads("DATA")
        /\ \E fragment \in FragmentsOf(Head(c2s).sequence) : fragment.injected)
          => /\ \A fragment \in FragmentsOf(Head(c2s).sequence) :
                    Head(c2s).checksum = calculate_checksum(fragment.original)
             /\ s2c' = Append(s2c, to_bytes(NackMessage(Head(c2s).sequence, "CHECKSUM_ERROR")))]_vars

\* C9: with a deterministic plan that corrupts exactly one fragment, a message
\* surfaced by the server is the original message, and by then exactly one
\* NACK was emitted and the fragment was retransmitted exactly once.
C9_SingleErrorRecovered ==
    (/\ cl.error_simulation.enabled
     /\ cl.error_simulation.deterministic_packets = {3}
     /\ cl.error_simulation.error_probability = "0.0"
     /\ surfaced # <<>>)
        => /\ surfaced[1] = cl.message
           /\ rcv.stats.errors_detected = 1
           /\ snd.stats.retransmissions = 1

---------------------------------------------------------------------------
(* Properties of the sender's threads *)

\* C6: while a packet is pending, its DATA frame is sent again at most
\* MAX_RETRIES times, however NACK handling and the monitor interleave.
C6_RetryBound ==
    \A seq_num \in DOMAIN thr.reemitted : thr.reemitted[seq_num] <= MAX_RETRIES

\* the DATA frames the server has read so far when nothing was injected, lost
\* or sent twice: the first frames of the message, in order
FramesRead ==
    [k \in 1..(Len(cl.fragments) - Len(c2s)) |->
        DataMessage(cl.fragments[k].sequence, cl.fragments[k].original,
                    calculate_checksum(cl.fragments[k].original),
                    k = Len(cl.packets))]

\* the session a receiving engine t reaches by reading `frames` one by one
RECURSIVE Replay(_, _, _)
Replay(t, session, frames) ==
    IF frames = <<>> THEN session
    ELSE LET r == receive_message(t, Head(frames))
         IN  Replay(r.t, deliver_all(session, r.dlv), Tail(frames))

OtherMode(mode) == IF mode = GO_BACK_N THEN SELECTIVE_REPEAT ELSE GO_BACK_N

\* C12: without faults or loss, the complete messages the server has surfaced
\* are the ones a session negotiated in the other mode surfaces for the same
\* frames.
C12_ModeParity ==
    ~cl.error_simulation.enabled
        => surfaced =
              Replay(ReliableTransport(OtherMode(rcv.operation_mode), rcv.window_size),
                     Session(ses.server, <<>>, <<>>),
                     FramesRead).surfaced

---------------------------------------------------------------------------
(* Properties of the connection: handshake, teardown, frames that do not decode *)

\* the client is ready: it has a started engine
ClientReady == snd # None /\ snd.running

\* C13: a connected client whose max_message_size is at least 30 eventually is
\* ready with a started engine, unless it is disconnected first, and then its
\* engine and the server's engine for it have the same window_size and the
\* same operation_mode.
C13_HandshakeCompletes ==
    (ses.client.connected /\ cl.max_message_size >= MIN_MESSAGE_SIZE)
        ~> \/ ~ses.client.connected
           \/ /\ ClientReady
              /\ rcv # None
              /\ snd.window_size = rcv.window_size
              /\ snd.operation_mode = rcv.operation_mode

\* the server reads a HANDSHAKE_REQ whose max_message_size is below 30
ServerReadsSmallRequest ==
    /\ ServerReads("HANDSHAKE_REQ")
    /\ Head(c2s).metadata.max_message_size < MIN_MESSAGE_SIZE

\* the reply to it: not accepted, with an error message
Rejected ==
    /\ Len(s2c') = Len(s2c) + 1
    /\ SubSeq(s2c', 1, Len(s2c)) = s2c
    /\ s2c'[Len(s2c')].type = "HANDSHAKE_RESP"
    /\ ~s2c'[Len(s2c')].metadata.accepted
    /\ s2c'[Len(s2c')].metadata.error_message # ""

\* C14 as stated: a HANDSHAKE_REQ with max_message_size below 30 is answered
\* by HANDSHAKE_RESP(accepted=false) with an error message, no engine is
\* created, and the handshake-completed flag is false afterwards.
C14_RejectLeavesFlagFalse ==
    [][ServerReadsSmallRequest
          => /\ Rejected
             /\ rcv' = rcv
             /\ ~ses'.server.handshake_completed]_vars

\* C14 amended: such a request is answered by HANDSHAKE_RESP(accepted=false)
\* with an error message, creates no engine, and leaves the peer's engine,
\* flag and negotiated parameters as they were: the flag is false afterwards
\* when no handshake of this peer was accepted before.
C14_RejectChangesNothing ==
    [][ServerReadsSmallRequest
          => /\ Rejected
             /\ rcv' = rcv
             /\ ses'.server = ses.server
             /\ message_buffer' = message_buffer
             /\ (rcv = None => rcv' = None /\ ~ses'.server.handshake_completed)]_vars

C14_Witness ==
    /\ last = Op("server_recv", FALSE)
    /\ s2c # <<>>
    /\ s2c[Len(s2c)].type = "HANDSHAKE_RESP"
    /\ ~s2c[Len(s2c)].metadata.accepted
    /\ rcv = None
    /\ ~ses.server.handshake_completed
    /\ ses.server.clients = "open"

\* C15: a DATA frame that the server reads before the peer's handshake has
\* completed is dropped: it reaches no engine, is not ACKed, NACKed or
\* delivered, and the session stays as it was; until then the peer has no
\* engine.
C15_NoDataBeforeHandshake ==
    [][(ServerReads("DATA") /\ ~ses.server.handshake_completed)
          => /\ rcv = None
             /\ rcv' = rcv
             /\ s2c' = s2c
             /\ delivered' = delivered
             /\ message_buffer' = message_buffer
             /\ surfaced' = surfaced
             /\ ses'.server = ses.server]_vars

\* the only frame written so far was DATA, and the server has read and dropped it
C15_Witness ==
    /\ last = Op("server_recv", FALSE)
    /\ env = 1
    /\ c2s = <<>>
    /\ s2c = <<>>
    /\ ses.server.errors_detected = 0
    /\ ~ses.server.handshake_completed
    /\ rcv = None
    /\ delivered = <<>>

\* a call of send_message returns in this step, or passes its checks
SendMessageCalled == last'.op \in {"send_message", "send_message_split"} /\ cl.pc = "idle"

---------------------------------------------------------------------------
(* Properties of send_message *)

\* C17: send_message with a message shorter than 30 characters or longer than
\* max_message_size returns false, passes nothing to the engine, emits no
\* frame, and leaves the engine and the client's counters as they were.
C17_SizeRejected ==
    [][(/\ SendMessageCalled
        /\ \/ Len(cl.message) < MIN_MESSAGE_SIZE
           \/ Len(cl.message) > cl.max_message_size)
          => /\ last' = Op("send_message", FALSE)
             /\ snd' = snd
             /\ c2s' = c2s
             /\ sent' = sent
             /\ cl'.fragments = cl.fragments
             /\ cl'.stats = cl.stats]_vars

\* a message that is too short was refused while packets were pending
C17_Witness ==
    /\ last = Op("send_message", FALSE)
    /\ Len(cl.message) < MIN_MESSAGE_SIZE
    /\ PendingCount(snd) > 0
    /\ snd.next_seq_num > 0
    /\ cl.stats.packets_sent > 0

\* C18: when send_data refuses fragment i, send_message returns false at once:
\* nothing is emitted, the fragments sent before stay pending, messages_sent
\* and packets_sent do not move, and no later fragment of the message is
\* passed to the engine.
C18_WindowFullAborts ==
    [][/\ (last'.op = "send_data" /\ ~last'.ret)
            => /\ cl.pc = "loop"
               /\ cl'.pc = "returned"
               /\ cl'.i = cl.i
               /\ c2s' = c2s
               /\ snd' = snd
               /\ sent' = sent
               /\ cl'.stats.messages_sent = cl.stats.messages_sent
               /\ cl'.stats.packets_sent = cl.stats.packets_sent
       /\ (cl.pc = "returned" /\ cl.i < Len(cl.packets))
            => /\ cl' = cl
               /\ sent' = sent
               /\ last'.op # "send_data"]_vars

\* the third fragment or a later one was refused; the earlier ones are pending
C18_Witness ==
    /\ last = Op("send_data", FALSE)
    /\ cl.pc = "returned"
    /\ cl.i >= 2
    /\ cl.i < Len(cl.packets)
    /\ PendingCount(snd) = snd.window_size
    /\ cl.stats.messages_sent = 0
    /\ cl.stats.packets_sent = cl.i

---------------------------------------------------------------------------
(* Properties of the end of a session and of frames that do not decode *)

\* C19: once a session has ended, on the client by disconnect() and on the
\* server by the peer's disconnect, the engine of that session is stopped.
C19_EngineStopped ==
    /\ (ses.client.socket = "closed" /\ snd # None) => ~snd.running
    /\ (ses.server.clients = "closed" /\ rcv # None) => ~rcv.running

\* C20: bytes that do not decode are dropped by the endpoint that reads them:
\* its receive loop keeps running and its engine and session stay as they
\* were, so that later frames are processed.
C20_DecodeErrorDropped ==
    [][/\ (last'.op = "client_recv" /\ s2c # <<>> /\ ~from_bytes(Head(s2c)).ok)
            => /\ ses'.client.receive_thread = "running"
               /\ snd' = snd
               /\ c2s' = c2s
       /\ (last'.op = "server_recv" /\ c2s # <<>> /\ ~from_bytes(Head(c2s)).ok)
            => /\ ses'.server.clients = "open"
               /\ rcv' = rcv
               /\ s2c' = s2c
               /\ message_buffer' = message_buffer]_vars

---------------------------------------------------------------------------
(* Properties of the sender's pending map and window *)

\* the frame the client reads in a step of its receive loop
ClientReads(msg_type) ==
    /\ last'.op = "client_recv"
    /\ s2c # <<>>
    /\ Head(s2c).type = msg_type

\* the sequence numbers that leave the sender's pending map in a step
Removed == (DOMAIN snd.pending_packets) \ (DOMAIN snd'.pending_packets)

\* C25: an entry leaves the sender's pending map only by an ACK that carries
\* its sequence number, or by the retransmit path (on a NACK for it or on the
\* expiry of its timer) when its retries are used up; an ACK for another
\* sequence number or a WINDOW_UPDATE removes nothing else.
C25_RemovedByAckOrExhaustion ==
    [][\A seq_num \in Removed :
          \/ ClientReads("ACK") /\ Head(s2c).sequence = seq_num
          \/ /\ snd.pending_packets[seq_num].retry_count >= MAX_RETRIES
             /\ \/ ClientReads("NACK") /\ Head(s2c).sequence = seq_num
                \/ last'.op = "monitor"]_vars

\* the oldest sequence number of a pending map (below the wrap)
Oldest(pending_packets) ==
    CHOOSE seq_num \in DOMAIN pending_packets :
        \A other \in DOMAIN pending_packets : seq_num <= other

\* C28: in GO_BACK_N the window advance after an ACK passes only sequence
\* numbers that are not pending and stops at the oldest pending one, so that
\* after every ACK window_start is the oldest unacknowledged sequence number,
\* or next_seq_num when nothing is pending.
C28_WindowStartAfterAck ==
    [][(snd.operation_mode = GO_BACK_N /\ ClientReads("ACK"))
          => /\ \A seq_num \in snd.window_start..(snd'.window_start - 1) :
                   seq_num \notin (DOMAIN snd.pending_packets) \ {Head(s2c).sequence}
             /\ snd'.window_start =
                   IF DOMAIN snd'.pending_packets = {}
                   THEN snd'.next_seq_num
                   ELSE Oldest(snd'.pending_packets)]_vars

---------------------------------------------------------------------------
(* The sender's handlers run by two threads, statement by statement (SpecRace):
   the receive loop handles ACK and NACK frames, the monitor retransmits on
   expiry, and nothing serializes them *)

RaceMaxSends == 1
RaceMaxEmits == 4

ThreadNames == {"receive_thread", "monitor_thread"}

\* where a thread goes when _retransmit_packet returns
Returned(th) ==
    IF th = "monitor_thread" THEN [Thread EXCEPT !.pc = "for"] ELSE Thread

\* `if seq_num in self.pending_packets: packet = self.pending_packets[seq_num]`
Retransmit(th, seq_num) ==
    IF seq_num \in DOMAIN snd.pending_packets
    THEN [pc |-> "load", seq_num |-> seq_num, retry_count |-> 0]
    ELSE Returned(th)

InitRace ==
    \E mode \in OperationMode :
        /\ snd = ReliableTransport(mode, MIN_WINDOW_SIZE)
        /\ rcv = ReliableTransport(mode, MIN_WINDOW_SIZE)
        /\ c2s = <<>>
        /\ s2c = <<>>
        /\ message_buffer = <<>>
        /\ surfaced = <<>>
        /\ sent = <<>>
        /\ delivered = <<>>
        /\ last = Op("init", TRUE)
        /\ env = 0
        /\ thr = Threads
        /\ ses = Established(mode, MIN_WINDOW_SIZE, DEFAULT_MAX_MESSAGE_SIZE)
        /\ cl = ClientOf(<<>>, MAX_PAYLOAD_SIZE, DEFAULT_MAX_MESSAGE_SIZE, NoErrorSimulation)

\* the application thread: send_data
RaceSendData ==
    /\ Len(sent) < RaceMaxSends
    /\ LET r == send_data(snd, Payload(Len(sent) + 1), FALSE)
           seq_num == snd.next_seq_num
       IN  /\ snd' = r.t
           /\ c2s' = c2s \o send_message_bytes(r.out)
           /\ sent' = IF r.ret THEN Append(sent, Payload(Len(sent) + 1)) ELSE sent
           /\ thr' = IF r.ret
                     THEN [thr EXCEPT
                             !.packets = (seq_num :> r.t.pending_packets[seq_num]) @@ @,
                             !.reemitted = (seq_num :> 0) @@ @]
                     ELSE thr
           /\ last' = Op("send_data", r.ret)
    /\ UNCHANGED <<ses, rcv, s2c, message_buffer, surfaced, delivered, env, cl>>

\* the peer reads the next frame, which the substrate may have corrupted
RacePeerReceive(corrupted) ==
    /\ c2s # <<>>
    /\ LET frame == from_bytes(Head(c2s)).message
           message == IF corrupted
                      THEN [frame EXCEPT !.payload = introduce_error(@, "bit_flip", 1)]
                      ELSE frame
           r == receive_message(rcv, message)
           session == deliver_all(
                          Session(ses.server, message_buffer, surfaced),
                          r.dlv)
       IN  /\ corrupted => frame.msg_type = "DATA" /\ frame.payload # <<>>
           /\ rcv' = r.t
           /\ s2c' = s2c \o send_message_bytes(r.out)
           /\ c2s' = Tail(c2s)
           /\ delivered' = delivered \o r.dlv
           /\ message_buffer' = session.message_buffer
           /\ surfaced' = session.surfaced
           /\ last' = Op("peer_recv", r.ret)
    /\ UNCHANGED <<ses, snd, sent, env, cl, thr>>

\* the receive loop reads a frame: an ACK is handled whole, a NACK for a
\* pending packet enters _retransmit_packet
RaceReceive ==
    /\ thr.receive_thread.pc = "idle"
    /\ s2c # <<>>
    /\ LET message == from_bytes(Head(s2c)).message IN
       IF message.msg_type = "NACK"
       THEN /\ thr' = [thr EXCEPT !.receive_thread =
                          IF message.sequence \in DOMAIN snd.pending_packets
                          THEN Retransmit("receive_thread", message.sequence)
                          ELSE Thread]
            /\ snd' = snd
            /\ last' = Op("recv_nack", TRUE)
       ELSE /\ snd' = receive_message(snd, message).t
            /\ thr' = thr
            /\ last' = Op("recv", TRUE)
    /\ s2c' = Tail(s2c)
    /\ UNCHANGED <<ses, rcv, c2s, message_buffer, surfaced, sent, delivered, env, cl>>

\* the monitor collects the expired timers of one pass
RaceMonitorScan(elapsed) ==
    LET idx == SelectSeq([i \in 1..Len(snd.timers) |-> i],
                         LAMBDA i : is_expired(snd.timers[i].timer, i \in elapsed))
        expired_packets == [j \in 1..Len(idx) |-> snd.timers[idx[j]].seq]
    IN  /\ thr.monitor_thread.pc = "idle"
        /\ snd.running
        /\ elapsed \subseteq 1..Len(snd.timers)
        /\ expired_packets # <<>>
        /\ thr' = [thr EXCEPT !.monitor_thread.pc = "for",
                              !.expired_packets = expired_packets,
                              !.observed = snd.timers]
        /\ last' = Op("monitor_scan", TRUE)
        /\ UNCHANGED <<ses, snd, rcv, c2s, s2c, message_buffer, surfaced, sent, delivered,
                       env, cl>>

\* `for seq_num in expired_packets: self._retransmit_packet(seq_num)`
RaceMonitorFor ==
    /\ thr.monitor_thread.pc = "for"
    /\ thr' = IF thr.expired_packets = <<>>
              THEN [thr EXCEPT !.monitor_thread = Thread, !.observed = <<>>]
              ELSE [thr EXCEPT
                      !.monitor_thread = Retransmit("monitor_thread", Head(thr.expired_packets)),
                      !.expired_packets = Tail(@)]
    /\ last' = Op("monitor_for", TRUE)
    /\ UNCHANGED <<ses, snd, rcv, c2s, s2c, message_buffer, surfaced, sent, delivered, env, cl>>

\* `packet.retry_count += 1`, first half: the attribute is read
RaceLoad(th) ==
    /\ thr[th].pc = "load"
    /\ thr' = [thr EXCEPT ![th].pc = "store",
                          ![th].retry_count = thr.packets[thr[th].seq_num].retry_count]
    /\ last' = Op("load", TRUE)
    /\ UNCHANGED <<ses, snd, rcv, c2s, s2c, message_buffer, surfaced, sent, delivered, env, cl>>

\* `packet.retry_count += 1`, second half: the sum is written to the object,
\* which the pending map shows while it holds the object
RaceStore(th) ==
    LET seq_num == thr[th].seq_num
        retry_count == thr[th].retry_count + 1
    IN  /\ thr[th].pc = "store"
        /\ thr' = [thr EXCEPT ![th].pc = "if",
                              ![th].retry_count = 0,
                              !.packets[seq_num].retry_count = retry_count]
        /\ snd' = IF seq_num \in DOMAIN snd.pending_packets
                  THEN [snd EXCEPT !.pending_packets[seq_num].retry_count = retry_count]
                  ELSE snd
        /\ last' = Op("store", TRUE)
        /\ UNCHANGED <<ses, rcv, c2s, s2c, message_buffer, surfaced, sent, delivered, env, cl>>

\* `if packet.retry_count <= MAX_RETRIES:` and the branch taken: the packet is
\* sent again and its timer reset, or the packet is given up; `del` of a key
\* another thread removed raises KeyError, which ends the thread's loop
RaceIf(th) ==
    LET seq_num == thr[th].seq_num
        packet == thr.packets[seq_num]
        pending == seq_num \in DOMAIN snd.pending_packets
    IN  /\ thr[th].pc = "if"
        /\ IF packet.retry_count <= MAX_RETRIES
           THEN /\ pending => thr.reemitted[seq_num] < RaceMaxEmits
                /\ c2s' = Append(c2s, to_bytes(packet.message))
                /\ snd' = [snd EXCEPT !.stats.retransmissions = @ + 1,
                                      !.timers = TimerReset(@, seq_num)]
                /\ thr' = [thr EXCEPT ![th] = Returned(th),
                                      !.reemitted[seq_num] = IF pending THEN @ + 1 ELSE @]
                /\ last' = Op("retransmit", TRUE)
           ELSE /\ c2s' = c2s
                /\ snd' = IF pending
                          THEN [snd EXCEPT !.pending_packets = DictDel(@, seq_num),
                                           !.timers = TimerDel(@, seq_num)]
                          ELSE snd
                /\ thr' = [thr EXCEPT ![th] = IF pending THEN Returned(th)
                                              ELSE [Thread EXCEPT !.pc = "KeyError"]]
                /\ last' = Op("give_up", pending)
        /\ UNCHANGED <<ses, rcv, s2c, message_buffer, surfaced, sent, delivered, env, cl>>

NextRace ==
    \/ RaceSendData
    \/ \E corrupted \in BOOLEAN : RacePeerReceive(corrupted)
    \/ RaceReceive
    \/ \E elapsed \in SUBSET (1..MIN_WINDOW_SIZE) : RaceMonitorScan(elapsed)
    \/ RaceMonitorFor
    \/ \E th \in ThreadNames : RaceLoad(th) \/ RaceStore(th) \/ RaceIf(th)

SpecRace == InitRace /\ [][NextRace]_vars

---------------------------------------------------------------------------
(* The connection from connect() to disconnect (SpecSession): the client and
   the server of the repository at the two ends, and frames that a peer of
   either of them may write *)

MaxPeerFrames == 2

\* faulty variant: the failed handshake leaves a started engine behind
perform_handshake_leaves_engine(client) ==
    [ret |-> FALSE, out |-> <<>>,
     transport |-> ReliableTransport(GO_BACK_N, DEFAULT_WINDOW_SIZE)]

\* _perform_handshake: HandshakeRequest has no parameter encryption_key, so
\* building the request raises TypeError before anything is sent; the except
\* clause returns False
perform_handshake(client) ==
    [ret |-> FALSE, out |-> <<>>, transport |-> None]

\* what a client may write to the server
ClientFrames ==
    {to_bytes(HandshakeRequest(MIN_MESSAGE_SIZE - 1, GO_BACK_N, FALSE)),
     to_bytes(HandshakeRequest(MIN_MESSAGE_SIZE, GO_BACK_N, FALSE)),
     to_bytes(HandshakeRequest(DEFAULT_MAX_MESSAGE_SIZE, SELECTIVE_REPEAT, FALSE)),
     to_bytes(HandshakeRequest(DEFAULT_MAX_MESSAGE_SIZE, "STOP_AND_WAIT", FALSE)),
     to_bytes(DataMessage(0, Payload(1), calculate_checksum(Payload(1)), TRUE)),
     Undecodable}

\* what a server may write to the client
ServerFrames ==
    {to_bytes(HandshakeResponse(TRUE, DEFAULT_WINDOW_SIZE, GO_BACK_N, "")),
     to_bytes(HandshakeResponse(FALSE, DEFAULT_WINDOW_SIZE, GO_BACK_N, "Erro interno")),
     to_bytes(AckMessage(0, DEFAULT_WINDOW_SIZE)),
     Undecodable}

InitSession ==
    \E window_size \in SessionWindowSizes, message \in Messages,
       max_message_size \in MaxMessageSizes :
        /\ snd = None
        /\ rcv = None
        /\ c2s = <<>>
        /\ s2c = <<>>
        /\ message_buffer = <<>>
        /\ surfaced = <<>>
        /\ sent = <<>>
        /\ delivered = <<>>
        /\ last = Op("init", TRUE)
        /\ env = 0
        /\ thr = Threads
        /\ ses = Disconnected(window_size)
        /\ cl = ClientOf(message, MAX_PAYLOAD_SIZE, max_message_size, NoErrorSimulation)

\* connect(): the socket connects, the receive thread starts, and the result
\* of _perform_handshake is returned
ClientConnect ==
    /\ ses.client.socket = "none"
    /\ LET h == perform_handshake(cl)
       IN  /\ ses' = [ses EXCEPT !.client.connected = TRUE,
                                 !.client.socket = "open",
                                 !.client.receive_thread = "running"]
           /\ snd' = h.transport
           /\ c2s' = c2s \o send_message_bytes(h.out)
           /\ last' = Op("connect", h.ret)
    /\ UNCHANGED <<rcv, s2c, message_buffer, surfaced, sent, delivered, env, cl, thr>>

\* _accept_connections: the peer's client_data is created
ServerAccept ==
    /\ ses.client.socket = "open"
    /\ ses.server.clients = "none"
    /\ ses' = [ses EXCEPT !.server.clients = "open",
                          !.server.handshake_completed = FALSE]
    /\ rcv' = None
    /\ message_buffer' = <<>>
    /\ last' = Op("accept", TRUE)
    /\ UNCHANGED <<snd, c2s, s2c, surfaced, sent, delivered, env, cl, thr>>

\* a frame written to the server by the client end of the connection
ClientWrites(frame) ==
    /\ ses.client.socket = "open"
    /\ env < MaxPeerFrames
    /\ c2s' = Append(c2s, frame)
    /\ env' = env + 1
    /\ last' = Op("client_writes", TRUE)
    /\ UNCHANGED <<snd, rcv, s2c, message_buffer, surfaced, sent, delivered, cl, thr, ses>>

\* a frame written to the client by the server end of the connection
ServerWrites(frame) ==
    /\ ses.client.socket = "open"
    /\ env < MaxPeerFrames
    /\ s2c' = Append(s2c, frame)
    /\ env' = env + 1
    /\ last' = Op("server_writes", TRUE)
    /\ UNCHANGED <<snd, rcv, c2s, message_buffer, surfaced, sent, delivered, cl, thr, ses>>

\* disconnect(): the engine, if there is one, is stopped and the socket closed;
\* the receive loop ends with it
ClientDisconnect ==
    /\ ses.client.connected
    /\ ses' = [ses EXCEPT !.client.connected = FALSE,
                          !.client.socket = "closed",
                          !.client.receive_thread = "ended"]
    /\ snd' = IF snd # None THEN [snd EXCEPT !.running = FALSE] ELSE snd
    /\ last' = Op("disconnect", TRUE)
    /\ UNCHANGED <<rcv, c2s, s2c, message_buffer, surfaced, sent, delivered, env, cl, thr>>

\* _handle_client: recv returns no data, the loop ends and the finally clause
\* removes the peer's client_data and closes the socket
ServerPeerDisconnect ==
    /\ ses.server.clients = "open"
    /\ ses.client.socket = "closed"
    /\ c2s = <<>>
    /\ ses' = [ses EXCEPT !.server.clients = "closed"]
    /\ last' = Op("peer_disconnect", TRUE)
    /\ UNCHANGED <<snd, rcv, c2s, s2c, message_buffer, surfaced, sent, delivered, env, cl,
                   thr>>

NextSession ==
    \/ ClientConnect
    \/ ServerAccept
    \/ \E frame \in ClientFrames : ClientWrites(frame)
    \/ \E frame \in ServerFrames : ServerWrites(frame)
    \/ ServerReceive
    \/ ClientReceive
    \/ ClientSendMessage
    \/ ClientDisconnect
    \/ ServerPeerDisconnect

\* the threads of both endpoints keep running; what the user and the peers do
\* is up to them
SpecSession ==
    /\ InitSession
    /\ [][NextSession]_vars
    /\ WF_vars(ClientConnect)
    /\ WF_vars(ServerAccept)
    /\ WF_vars(ServerReceive)
    /\ WF_vars(ClientReceive)
---------------------------------------------------------------------------
(* The wire encoding on its own (SpecCodec): an endpoint writes a message as
   to_bytes makes it and the other end decodes what it reads.  Here sent
   holds the messages written and delivered the messages decoded. *)

MaxCodecFrames == 1

\* a timestamp an application has set on a message: seconds since the epoch
Timestamp(seconds) == [seconds |-> seconds]

Timestamps == {None, Timestamp(1)}

\* messages of every kind, as the constructors of protocol.py build them
ConstructedMessages ==
    {DataMessage(sequence, Payload(k), calculate_checksum(Payload(k)), is_final) :
        sequence \in {0, SEQ_SPACE - 1}, k \in 1..2, is_final \in BOOLEAN}
    \cup {DataMessage(1, Payload(1), U32(12345), FALSE)}
    \cup {AckMessage(sequence, window_size) :
            sequence \in {0, SEQ_SPACE - 1},
            window_size \in {MIN_WINDOW_SIZE, DEFAULT_WINDOW_SIZE}}
    \cup {NackMessage(sequence, "CHECKSUM_ERROR") : sequence \in {0, SEQ_SPACE - 1}}
    \cup {WindowUpdateMessage(window_size) :
            window_size \in {MIN_WINDOW_SIZE, DEFAULT_WINDOW_SIZE}}
    \cup {HandshakeRequest(max_message_size, mode, encryption_enabled) :
            max_message_size \in {MIN_MESSAGE_SIZE, DEFAULT_MAX_MESSAGE_SIZE},
            mode \in OperationMode, encryption_enabled \in BOOLEAN}
    \cup {HandshakeResponse(TRUE, window_size, mode, "") :
            window_size \in {MIN_WINDOW_SIZE, DEFAULT_WINDOW_SIZE}, mode \in OperationMode}
    \cup {HandshakeResponse(FALSE, DEFAULT_WINDOW_SIZE, GO_BACK_N, "Erro interno")}
    \cup {ProtocolMessage("ERROR", 0, <<>>, U32(0), DEFAULT_WINDOW_SIZE),
          ProtocolMessage("FINISH", 0, <<>>, U32(0), DEFAULT_WINDOW_SIZE)}

\* the same messages, with the timestamp attribute left alone or set
CodecMessages ==
    {[message EXCEPT !.timestamp = timestamp] :
        message \in ConstructedMessages, timestamp \in Timestamps}

InitCodec ==
    /\ snd = None
    /\ rcv = None
    /\ c2s = <<>>
    /\ s2c = <<>>
    /\ message_buffer = <<>>
    /\ surfaced = <<>>
    /\ sent = <<>>
    /\ delivered = <<>>
    /\ last = Op("init", TRUE)
    /\ env = 0
    /\ thr = Threads
    /\ ses = Established(GO_BACK_N, DEFAULT_WINDOW_SIZE, DEFAULT_MAX_MESSAGE_SIZE)
    /\ cl = ClientOf(<<>>, MAX_PAYLOAD_SIZE, DEFAULT_MAX_MESSAGE_SIZE, NoErrorSimulation)

\* _send_message: data = message.to_bytes(); self.socket.send(data)
CodecSend(message) ==
    /\ Len(sent) < MaxCodecFrames
    /\ c2s' = c2s \o send_message_bytes(<<message>>)
    /\ sent' = Append(sent, message)
    /\ last' = Op("to_bytes", TRUE)
    /\ UNCHANGED <<snd, rcv, s2c, message_buffer, surfaced, delivered, env, thr, ses, cl>>

\* the reading end: data = recv(4096); message = ProtocolMessage.from_bytes(data)
CodecReceive ==
    /\ c2s # <<>>
    /\ LET decoded == from_bytes(Head(c2s))
       IN  /\ delivered' = Append(delivered, decoded.message)
           /\ last' = Op("from_bytes", decoded.ok)
    /\ c2s' = Tail(c2s)
    /\ UNCHANGED <<snd, rcv, s2c, message_buffer, surfaced, sent, env, thr, ses, cl>>

NextCodec ==
    \/ \E message \in CodecMessages : CodecSend(message)
    \/ CodecReceive

SpecCodec == InitCodec /\ [][NextCodec]_vars

---------------------------------------------------------------------------
(* split_message on its own (SpecSplit): cl.message is cut with the cap
   cl.packet_payload_size and cl.packets holds the list returned *)

MaxSplitLen == 4
MaxCap == 5

\* the code units the messages are made of: 'a' and 'b'
SplitAlphabet == {97, 98}

SplitMessages == UNION {[1..n -> SplitAlphabet] : n \in 0..MaxSplitLen}

InitSplit ==
    \E message \in SplitMessages, cap \in 1..MaxCap :
        /\ snd = None
        /\ rcv = None
        /\ c2s = <<>>
        /\ s2c = <<>>
        /\ message_buffer = <<>>
        /\ surfaced = <<>>
        /\ sent = <<>>
        /\ delivered = <<>>
        /\ last = Op("init", TRUE)
        /\ env = 0
        /\ thr = Threads
        /\ ses = Disconnected(DEFAULT_WINDOW_SIZE)
        /\ cl = ClientOf(message, cap, DEFAULT_MAX_MESSAGE_SIZE, NoErrorSimulation)

\* packets = split_message(message, max_payload)
Split ==
    /\ cl.pc = "idle"
    /\ cl' = [cl EXCEPT !.pc = "split",
                        !.packets = split_message(cl.message, cl.packet_payload_size)]
    /\ last' = Op("split_message", TRUE)
    /\ UNCHANGED <<snd, rcv, c2s, s2c, message_buffer, surfaced, sent, delivered, env, thr,
                   ses>>

NextSplit == Split

SpecSplit == InitSplit /\ [][NextSplit]_vars

\* "".join(packets)
RECURSIVE join(_)
join(packets) ==
    IF packets = <<>> THEN <<>> ELSE Head(packets) \o join(Tail(packets))

\* C23: for every message and every cap of at least 1, the slices returned by
\* split_message are non-empty, at most cap long, and joined in order they are
\* the message; the empty message gives the empty list.
C23_SplitPartitions ==
    cl.pc = "split"
        => /\ \A k \in 1..Len(cl.packets) :
                 /\ Len(cl.packets[k]) >= 1
                 /\ Len(cl.packets[k]) <= cl.packet_payload_size
           /\ join(cl.packets) = cl.message
           /\ (cl.message = <<>> => cl.packets = <<>>)

\* a message of four characters cut with cap 3: the last slice is shorter
C23_Witness ==
    /\ cl.pc = "split"
    /\ Len(cl.message) = 4
    /\ cl.packet_payload_size = 3
    /\ Len(cl.packets) = 2
    /\ Len(cl.packets[2]) = 1

---------------------------------------------------------------------------
(* verify_checksum on its own (SpecChecksum): a DATA frame with any of the
   payloads and any of the checksum values is read and verified; delivered
   holds the message that was verified, last the value verify_checksum gave *)

\* the fragments of the demo message, and the empty text
ChecksumTexts ==
    {Payload(k) : k \in 1..Len(split_message(DemoMessage, MAX_PAYLOAD_SIZE))} \cup {<<>>}

\* the 32-bit value after c
Succ32(c) ==
    IF c[2] < 65535 THEN <<c[1], c[2] + 1>>
    ELSE IF c[1] < 65535 THEN <<c[1] + 1, 0>> ELSE U32(0)

\* expected values: the checksum of every text, the value next to it, 0 and 12345
ChecksumValues ==
    {calculate_checksum(data) : data \in ChecksumTexts}
    \cup {Succ32(calculate_checksum(data)) : data \in ChecksumTexts}
    \cup {U32(0), U32(12345)}

InitChecksum ==
    \E data \in ChecksumTexts, expected_checksum \in ChecksumValues :
        /\ snd = None
        /\ rcv = None
        /\ c2s = <<to_bytes(DataMessage(0, data, expected_checksum, FALSE))>>
        /\ s2c = <<>>
        /\ message_buffer = <<>>
        /\ surfaced = <<>>
        /\ sent = <<>>
        /\ delivered = <<>>
        /\ last = Op("init", TRUE)
        /\ env = 0
        /\ thr = Threads
        /\ ses = Disconnected(DEFAULT_WINDOW_SIZE)
        /\ cl = ClientOf(<<>>, MAX_PAYLOAD_SIZE, DEFAULT_MAX_MESSAGE_SIZE, NoErrorSimulation)

\* verify_checksum(message.payload, message.checksum) on the frame read
VerifyChecksum ==
    /\ c2s # <<>>
    /\ LET message == from_bytes(Head(c2s)).message
       IN  /\ delivered' = Append(delivered, message)
           /\ last' = Op("verify_checksum",
                         verify_checksum(message.payload, message.checksum))
    /\ c2s' = Tail(c2s)
    /\ UNCHANGED <<snd, rcv, s2c, message_buffer, surfaced, sent, env, thr, ses, cl>>

NextChecksum == VerifyChecksum

SpecChecksum == InitChecksum /\ [][NextChecksum]_vars

\* C24: verify_checksum(d, c) is true exactly when c is calculate_checksum(d):
\* the checksum of d itself is accepted, every other value is rejected, and the
\* checksum of the empty text is 0.
C24_VerifyIffEqual ==
    /\ calculate_checksum(<<>>) = U32(0)
    /\ last.op = "verify_checksum"
          => LET data == delivered[1].payload
                 expected_checksum == delivered[1].checksum
             IN  /\ last.ret = (expected_checksum = calculate_checksum(data))
                 /\ verify_checksum(data, calculate_checksum(data))
                 /\ \A other \in ChecksumValues \ {calculate_checksum(data)} :
                       ~verify_checksum(data, other)

\* a fragment was checked against the value next to its checksum and against 0
C24_Witness ==
    /\ last = Op("verify_checksum", FALSE)
    /\ delivered[1].payload # <<>>
    /\ delivered[1].checksum \in {U32(0), Succ32(calculate_checksum(delivered[1].payload))}

---------------------------------------------------------------------------
(* The sending engine and the frames its peer answers with (SpecFeedback):
   ACK, NACK and WINDOW_UPDATE frames in any order and number, and timer
   expiries, each handler running from its first statement to its last *)

MaxFeedback == 5
MaxFeedbackSends == 2

FeedbackWindowSizes == {2}

\* a window size outside MIN_WINDOW_SIZE..MAX_WINDOW_SIZE
MAX_WINDOW_SIZE == 5

\* what the peer of a sending engine may write to it
FeedbackFrames ==
    {AckMessage(sequence, DEFAULT_WINDOW_SIZE) : sequence \in 0..MaxFeedbackSends - 1}
    \cup {NackMessage(sequence, "CHECKSUM_ERROR") : sequence \in 0..MaxFeedbackSends - 1}
    \cup {WindowUpdateMessage(MAX_WINDOW_SIZE + 1)}

InitFeedback ==
    \E mode \in OperationMode, window_size \in FeedbackWindowSizes :
        /\ snd = ReliableTransport(mode, window_size)
        /\ rcv = ReliableTransport(mode, window_size)
        /\ c2s = <<>>
        /\ s2c = <<>>
        /\ message_buffer = <<>>
        /\ surfaced = <<>>
        /\ sent = <<>>
        /\ delivered = <<>>
        /\ last = Op("init", TRUE)
        /\ env = 0
        /\ thr = Threads
        /\ ses = Established(mode, window_size, DEFAULT_MAX_MESSAGE_SIZE)
        /\ cl = ClientOf(<<>>, MAX_PAYLOAD_SIZE, DEFAULT_MAX_MESSAGE_SIZE, NoErrorSimulation)

\* the application sends the next fragment
FeedbackSend ==
    /\ Len(sent) < MaxFeedbackSends
    /\ SendData(FALSE)

\* the peer writes a frame once the client has read the one before
PeerWrites(frame) ==
    /\ env < MaxFeedback
    /\ s2c = <<>>
    /\ s2c' = Append(s2c, to_bytes(frame))
    /\ env' = env + 1
    /\ last' = Op("peer_writes", TRUE)
    /\ UNCHANGED <<snd, rcv, c2s, message_buffer, surfaced, sent, delivered, cl, thr, ses>>

NextFeedback ==
    \/ FeedbackSend
    \/ \E frame \in FeedbackFrames : PeerWrites(frame)
    \/ ClientReceive
    \/ \E elapsed \in SUBSET (1..Len(snd.timers)) : MonitorPass(elapsed, MaxFeedback)

SpecFeedback == InitFeedback /\ [][NextFeedback]_vars

\* C27: the window_size of every engine, the client's and the server's, is an
\* integer from 1 to 5 in every reachable state, whatever frames the endpoint
\* has read.
C27_WindowSizeInRange ==
    /\ snd # None => snd.window_size \in MIN_WINDOW_SIZE..MAX_WINDOW_SIZE
    /\ rcv # None => rcv.window_size \in MIN_WINDOW_SIZE..MAX_WINDOW_SIZE

---------------------------------------------------------------------------
(* Properties of the retransmit path, with the receive loop and the monitor
   both inside it (SpecRace) *)

\* the thread th leaves the statement at pc in this step
Leaves(th, pc) == thr[th].pc = pc /\ thr'[th].pc # pc

\* C29: a NACK for a pending packet with retries left sends the original DATA
\* message of that sequence number again, adds one to the retry counter of that
\* entry and to the retransmissions counter, resets the timer of that entry and
\* leaves every other entry alone; a NACK for a sequence number that is not
\* pending emits nothing and changes nothing.
C29_NackRetransmits ==
    [][LET seq_num == thr.receive_thread.seq_num IN
       /\ (Leaves("receive_thread", "store") /\ seq_num \in DOMAIN snd.pending_packets)
            => snd'.pending_packets =
                  [snd.pending_packets EXCEPT ![seq_num].retry_count = @ + 1]
       /\ (Leaves("receive_thread", "if") /\ last'.op = "retransmit")
            => /\ c2s' = Append(c2s, to_bytes(thr.packets[seq_num].message))
               /\ snd'.stats.retransmissions = snd.stats.retransmissions + 1
               /\ snd'.timers = TimerReset(snd.timers, seq_num)
               /\ snd'.pending_packets = snd.pending_packets
       /\ (last'.op = "recv_nack" /\ s2c # <<>>
           /\ Head(s2c).sequence \notin DOMAIN snd.pending_packets)
            => snd' = snd /\ c2s' = c2s]_vars

\* C30: when the retransmit path runs for a pending packet that was sent again
\* MAX_RETRIES times already, it emits nothing, removes the entry and its timer
\* and leaves the retransmissions counter alone; afterwards nothing is emitted
\* for that sequence number.
C30_ExhaustedIsGivenUp ==
    [][\A seq_num \in DOMAIN thr.reemitted :
          /\ (/\ seq_num \in DOMAIN snd.pending_packets
              /\ thr.reemitted[seq_num] >= MAX_RETRIES
              /\ \E th \in ThreadNames : Leaves(th, "if") /\ thr[th].seq_num = seq_num)
                => /\ c2s' = c2s
                   /\ seq_num \notin DOMAIN snd'.pending_packets
                   /\ seq_num \notin TimerKeys(snd'.timers)
                   /\ snd'.stats.retransmissions = snd.stats.retransmissions
          /\ (/\ seq_num \notin DOMAIN snd.pending_packets
              /\ thr.packets[seq_num].retry_count > MAX_RETRIES)
                => c2s' = c2s /\ snd'.pending_packets = snd.pending_packets]_vars


---------------------------------------------------------------------------
(* send_data run statement by statement by the application thread while the
   client's receive loop handles the peer's frames (SpecSendRace): the engine
   has no lock, so a frame can be handled between any two statements *)

SendRaceMaxSends == 2

SendRaceWindowSizes == {1, 2}

\* the application thread outside send_data
ApplicationThread == [pc |-> "idle", message |-> None]

InitSendRace ==
    \E mode \in OperationMode, window_size \in SendRaceWindowSizes :
        /\ snd = ReliableTransport(mode, window_size)
        /\ rcv = ReliableTransport(mode, window_size)
        /\ c2s = <<>>
        /\ s2c = <<>>
        /\ message_buffer = <<>>
        /\ surfaced = <<>>
        /\ sent = <<>>
        /\ delivered = <<>>
        /\ last = Op("init", TRUE)
        /\ env = 0
        /\ thr = [application_thread |-> ApplicationThread]
        /\ ses = Established(mode, window_size, DEFAULT_MAX_MESSAGE_SIZE)
        /\ cl = ClientOf(<<>>, MAX_PAYLOAD_SIZE, DEFAULT_MAX_MESSAGE_SIZE, NoErrorSimulation)

\* `if not self._can_send(): return False`, then the checksum and the message
SendCanSend(is_final) ==
    /\ thr.application_thread.pc = "idle"
    /\ Len(sent) < SendRaceMaxSends
    /\ LET payload == Payload(Len(sent) + 1)
           message == DataMessage(snd.next_seq_num, payload,
                                  calculate_checksum(payload), is_final)
       IN  IF can_send(snd)
           THEN /\ thr' = [thr EXCEPT !.application_thread =
                                          [pc |-> "pending", message |-> message]]
                /\ UNCHANGED last
           ELSE /\ last' = Op("send_data", FALSE)
                /\ UNCHANGED thr
    /\ UNCHANGED <<snd, rcv, c2s, s2c, message_buffer, surfaced, sent, delivered, env,
                   cl, ses>>

\* `self.pending_packets[self.next_seq_num] = PendingPacket(message=message, ...)`
SendPending ==
    /\ thr.application_thread.pc = "pending"
    /\ snd' = [snd EXCEPT
                 !.pending_packets =
                     DictSet(@, snd.next_seq_num,
                             [message |-> thr.application_thread.message,
                              retry_count |-> 0])]
    /\ thr' = [thr EXCEPT !.application_thread.pc = "timer"]
    /\ UNCHANGED <<rcv, c2s, s2c, message_buffer, surfaced, sent, delivered, last, env,
                   cl, ses>>

\* `timer = Timer(self.timeout); timer.start(); self.timers[self.next_seq_num] = timer`
SendTimer ==
    /\ thr.application_thread.pc = "timer"
    /\ snd' = [snd EXCEPT !.timers = TimerSet(@, snd.next_seq_num, StartedTimer)]
    /\ thr' = [thr EXCEPT !.application_thread.pc = "send"]
    /\ UNCHANGED <<rcv, c2s, s2c, message_buffer, surfaced, sent, delivered, last, env,
                   cl, ses>>

\* `self.send_callback(message); self.stats['packets_sent'] += 1`
SendCallback ==
    /\ thr.application_thread.pc = "send"
    /\ c2s' = c2s \o send_message_bytes(<<thr.application_thread.message>>)
    /\ snd' = [snd EXCEPT !.stats.packets_sent = @ + 1]
    /\ thr' = [thr EXCEPT !.application_thread.pc = "advance"]
    /\ UNCHANGED <<rcv, s2c, message_buffer, surfaced, sent, delivered, last, env, cl,
                   ses>>

\* `self.next_seq_num = (self.next_seq_num + 1) % 1000; return True`
SendAdvance ==
    /\ thr.application_thread.pc = "advance"
    /\ snd' = [snd EXCEPT !.next_seq_num = (@ + 1) % SEQ_SPACE]
    /\ sent' = Append(sent, thr.application_thread.message.payload)
    /\ thr' = [thr EXCEPT !.application_thread = ApplicationThread]
    /\ last' = Op("send_data", TRUE)
    /\ UNCHANGED <<rcv, c2s, s2c, message_buffer, surfaced, delivered, env, cl, ses>>

NextSendRace ==
    \/ \E is_final \in BOOLEAN : SendCanSend(is_final)
    \/ SendPending
    \/ SendTimer
    \/ SendCallback
    \/ SendAdvance
    \/ ServerReceive
    \/ ClientReceive
    \/ \E w \in WindowUpdateSizes : WindowUpdate(w)

SpecSendRace == InitSendRace /\ [][NextSendRace]_vars

\* C26: whenever no engine operation is in progress, the sequence numbers that
\* have a timer are exactly the sequence numbers in the pending map, one timer
\* each
C26_TimersMatchPending ==
    thr.application_thread.pc = "idle" =>
        /\ TimerKeys(snd.timers) = DOMAIN snd.pending_packets
        /\ Len(snd.timers) = Cardinality(TimerKeys(snd.timers))

---------------------------------------------------------------------------
(* A session whose handshake asks for encryption (SpecCrypto): the peer of
   the server writes what the wire format prescribes, a HANDSHAKE_REQ that
   carries its key and then the fragments of the token of its message *)

CryptoWindowSizes == {2}

\* the handshake request with the serialized key in its metadata
KeyedHandshakeRequest(max_message_size, operation_mode, client) ==
    IF client.encryption_enabled
    THEN [encryption_key |-> client.encryption_manager.key]
             @@ HandshakeRequest(max_message_size, operation_mode, TRUE)
    ELSE HandshakeRequest(max_message_size, operation_mode, FALSE)

\* send_message: the text is encrypted, then split
CryptoPackets ==
    split_message(IF ses.client.encryption_enabled /\ ses.client.encryption_manager # None
                  THEN encrypt(ses.client.encryption_manager, DemoMessage)
                  ELSE DemoMessage,
                  MAX_PAYLOAD_SIZE)

InitCrypto ==
    \E mode \in OperationMode, window_size \in CryptoWindowSizes,
       enabled \in BOOLEAN, key \in FernetKeys :
        /\ snd = ReliableTransport(mode, window_size)
        /\ rcv = None
        /\ c2s = <<>>
        /\ s2c = <<>>
        /\ message_buffer = <<>>
        /\ surfaced = <<>>
        /\ sent = <<>>
        /\ delivered = <<>>
        /\ last = Op("init", TRUE)
        /\ env = 0
        /\ thr = Threads
        /\ ses = [Disconnected(window_size) EXCEPT
                    !.client.connected = TRUE,
                    !.client.socket = "open",
                    !.client.receive_thread = "running",
                    !.client.encryption_enabled = enabled,
                    !.client.encryption_manager =
                        IF enabled THEN EncryptionManager(key) ELSE None,
                    !.server.clients = "open"]
        /\ cl = ClientOf(DemoMessage, MAX_PAYLOAD_SIZE, DEFAULT_MAX_MESSAGE_SIZE,
                         NoErrorSimulation)

\* the handshake request is written, once
CryptoHandshake ==
    /\ last = Op("init", TRUE)
    /\ c2s' = Append(c2s, to_bytes(KeyedHandshakeRequest(DEFAULT_MAX_MESSAGE_SIZE,
                                                        snd.operation_mode, ses.client)))
    /\ last' = Op("handshake", TRUE)
    /\ UNCHANGED <<snd, rcv, s2c, message_buffer, surfaced, sent, delivered, env, cl, thr,
                   ses>>

\* after the server accepted, the next fragment is handed to send_data
CryptoSend ==
    /\ ses.client.handshake_response # <<>>
    /\ ses.client.handshake_response[1].accepted
    /\ Len(sent) < Len(CryptoPackets)
    /\ LET payload == CryptoPackets[Len(sent) + 1]
           r == send_data(snd, payload, Len(sent) + 1 = Len(CryptoPackets))
       IN  /\ snd' = r.t
           /\ c2s' = c2s \o send_message_bytes(r.out)
           /\ sent' = IF r.ret THEN Append(sent, payload) ELSE sent
           /\ last' = Op("send_data", r.ret)
    /\ UNCHANGED <<rcv, s2c, message_buffer, surfaced, delivered, env, cl, thr, ses>>

NextCrypto ==
    \/ CryptoHandshake
    \/ CryptoSend
    \/ ServerReceive
    \/ ClientReceive

SpecCrypto == InitCrypto /\ [][NextCrypto]_vars

\* the final fragment of the peer's message has reached the server's handler
FinalDelivered == \E i \in 1..Len(delivered) : delivered[i].is_final

\* C21: when the handshake enabled encryption, the server's cipher has the key
\* of the client's cipher, and once the final fragment has been handled the
\* message surfaced is the client's plaintext
C21_ServerDecryptsWithClientKey ==
    ses.server.encryption_enabled =>
        /\ ses.server.encryption_manager = ses.client.encryption_manager
        /\ FinalDelivered => surfaced = <<DemoMessage>>

---------------------------------------------------------------------------
(* Properties of the receiving engine: SELECTIVE_REPEAT and duplicates *)

\* the DATA message the server reads in a step
DataRead == from_bytes(Head(c2s)).message

\* C31: in SELECTIVE_REPEAT a DATA message with a valid checksum whose sequence
\* number is not in the received map is stored, ACKed and handed to the
\* delivery callback once, in whatever order it arrives; a sequence number that
\* is in the received map is not delivered again; expected_seq_num never
\* changes.
C31_SelectiveRepeatImmediate ==
    [][rcv.operation_mode = SELECTIVE_REPEAT
          => /\ rcv'.expected_seq_num = rcv.expected_seq_num
             /\ ServerReads("DATA")
                  => IF /\ verify_checksum(DataRead.payload, DataRead.checksum)
                        /\ DataRead.sequence \notin DOMAIN rcv.received_packets
                     THEN /\ rcv'.received_packets =
                                 DictSet(rcv.received_packets, DataRead.sequence, DataRead)
                          /\ s2c' = Append(s2c, to_bytes(AckMessage(DataRead.sequence,
                                                                    rcv.window_size)))
                          /\ delivered' = Append(delivered, DataRead)
                     ELSE delivered' = delivered]_vars

\* sequence number 1 arrived before sequence number 0 and was delivered
C31_Witness ==
    /\ rcv.operation_mode = SELECTIVE_REPEAT
    /\ delivered # <<>>
    /\ delivered[1].sequence = 1
    /\ DOMAIN rcv.received_packets = {1}
    /\ rcv.expected_seq_num = 0

\* C32: a DATA message with a valid checksum whose sequence number is a key of
\* the received map is answered by exactly one ACK for that sequence number
\* with the engine's window_size, counts one duplicate, and leaves the received
\* map, expected_seq_num and packets_received as they are; nothing is delivered.
C32_DuplicateReAcked ==
    [][(/\ ServerReads("DATA")
        /\ verify_checksum(DataRead.payload, DataRead.checksum)
        /\ DataRead.sequence \in DOMAIN rcv.received_packets)
          => /\ s2c' = Append(s2c, to_bytes(AckMessage(DataRead.sequence, rcv.window_size)))
             /\ rcv'.stats.duplicate_packets = rcv.stats.duplicate_packets + 1
             /\ rcv'.received_packets = rcv.received_packets
             /\ rcv'.expected_seq_num = rcv.expected_seq_num
             /\ rcv'.stats.packets_received = rcv.stats.packets_received
             /\ delivered' = delivered]_vars

\* a duplicate has been handled
C32_Witness ==
    /\ last.op = "server_recv"
    /\ rcv.stats.duplicate_packets = 1
    /\ Len(s2c) >= 2

---------------------------------------------------------------------------
(* Properties of the engine's threads *)

\* start_time of the timer of seq_num in a timer dict that has one
StartTime(timers, seq_num) ==
    (CHOOSE entry \in {timers[i] : i \in 1..Len(timers)} : entry.seq = seq_num)
        .timer.start_time

\* C33: the monitor sends a sequence number again only on an expiry that is
\* still current: when it re-emits seq, the timer of seq has not been reset
\* (by the NACK path) since the scan that found it expired.
C33_NackResetFencesMonitor ==
    [][LET seq_num == thr.monitor_thread.seq_num IN
       (/\ Leaves("monitor_thread", "if")
        /\ last'.op = "retransmit"
        /\ seq_num \in TimerKeys(snd.timers)
        /\ seq_num \in TimerKeys(thr.observed))
          => StartTime(snd.timers, seq_num) = StartTime(thr.observed, seq_num)]_vars

\* C34: no ACK is handled while send_data stands between the insertion of its
\* sequence number into the pending map and the registration of the timer, and
\* when send_data returns every timer belongs to a pending sequence number.
C34_NoAckInsideSend ==
    [][/\ ClientReads("ACK") => thr.application_thread.pc # "timer"
       /\ (thr.application_thread.pc = "advance" /\ thr'.application_thread.pc = "idle")
            => TimerKeys(snd'.timers) \subseteq DOMAIN snd'.pending_packets]_vars

---------------------------------------------------------------------------
(* _monitor_timeouts run statement by statement by the monitor thread while
   the application thread calls send_data and stop (SpecMonitor); no ACK ever
   arrives, and the engine has the mode of its constructor's default.  The iterator of `self.timers.items()` raises RuntimeError when
   the dict has changed size since the loop began, which ends the thread. *)

MonitorMaxSends == 2

MonitorWindowSizes == {2}

\* the monitor thread that start() has just started
MonitorThread == [pc |-> "while", index |-> 0, size |-> 0]

InitMonitor ==
    \E mode \in {GO_BACK_N}, window_size \in MonitorWindowSizes :
        /\ snd = ReliableTransport(mode, window_size)
        /\ rcv = ReliableTransport(mode, window_size)
        /\ c2s = <<>>
        /\ s2c = <<>>
        /\ message_buffer = <<>>
        /\ surfaced = <<>>
        /\ sent = <<>>
        /\ delivered = <<>>
        /\ last = Op("init", TRUE)
        /\ env = 0
        /\ thr = [monitor_thread |-> MonitorThread, expired_packets |-> <<>>]
        /\ ses = Established(mode, window_size, DEFAULT_MAX_MESSAGE_SIZE)
        /\ cl = ClientOf(<<>>, MAX_PAYLOAD_SIZE, DEFAULT_MAX_MESSAGE_SIZE, NoErrorSimulation)

\* faulty variant: the loop does not test self.running
MonitorWhileTrue ==
    /\ thr.monitor_thread.pc = "while"
    /\ thr' = [monitor_thread |-> [pc |-> "scan", index |-> 1, size |-> Len(snd.timers)],
               expired_packets |-> <<>>]
    /\ last' = Op("monitor_while", snd.running)
    /\ UNCHANGED <<snd, rcv, c2s, s2c, message_buffer, surfaced, sent, delivered, env, cl,
                   ses>>

\* `while self.running:` and, when it holds, `expired_packets = []` and the
\* iterator of the `for` over self.timers.items()
MonitorWhile ==
    /\ thr.monitor_thread.pc = "while"
    /\ thr' = IF snd.running
              THEN [monitor_thread |-> [pc |-> "scan", index |-> 1,
                                        size |-> Len(snd.timers)],
                    expired_packets |-> <<>>]
              ELSE [thr EXCEPT !.monitor_thread.pc = "exited"]
    /\ last' = Op("monitor_while", snd.running)
    /\ UNCHANGED <<snd, rcv, c2s, s2c, message_buffer, surfaced, sent, delivered, env, cl,
                   ses>>

\* one step of `for seq_num, timer in self.timers.items(): if timer.is_expired():
\* expired_packets.append(seq_num)`; elapsed says whether the timeout of the
\* timer looked at has passed
MonitorScan(elapsed) ==
    LET index == thr.monitor_thread.index IN
    /\ thr.monitor_thread.pc = "scan"
    /\ thr' = IF Len(snd.timers) # thr.monitor_thread.size
              THEN [thr EXCEPT !.monitor_thread.pc = "RuntimeError"]
              ELSE IF index > Len(snd.timers)
              THEN [thr EXCEPT !.monitor_thread.pc = "for"]
              ELSE [thr EXCEPT
                      !.monitor_thread.index = index + 1,
                      !.expired_packets =
                          IF is_expired(snd.timers[index].timer, elapsed)
                          THEN Append(@, snd.timers[index].seq) ELSE @]
    /\ last' = Op("monitor_scan", Len(snd.timers) = thr.monitor_thread.size)
    /\ UNCHANGED <<snd, rcv, c2s, s2c, message_buffer, surfaced, sent, delivered, env, cl,
                   ses>>

\* the scan looks at the timer of seq_num after its timeout has passed
MonitorSeesExpired(seq_num) ==
    /\ thr.monitor_thread.pc = "scan"
    /\ Len(snd.timers) = thr.monitor_thread.size
    /\ thr.monitor_thread.index <= Len(snd.timers)
    /\ snd.timers[thr.monitor_thread.index].seq = seq_num
    /\ MonitorScan(TRUE)

\* one step of `for seq_num in expired_packets: self._retransmit_packet(seq_num)`,
\* then `time.sleep(0.1)`
MonitorRetransmit ==
    /\ thr.monitor_thread.pc = "for"
    /\ IF thr.expired_packets = <<>>
       THEN /\ thr' = [thr EXCEPT !.monitor_thread = MonitorThread]
            /\ UNCHANGED <<snd, c2s>>
       ELSE LET r == retransmit_packet(snd, Head(thr.expired_packets))
            IN  /\ thr' = [thr EXCEPT !.expired_packets = Tail(@)]
                /\ snd' = r.t
                /\ c2s' = c2s \o send_message_bytes(r.out)
    /\ last' = Op("monitor_for", TRUE)
    /\ UNCHANGED <<rcv, s2c, message_buffer, surfaced, sent, delivered, env, cl, ses>>

\* the application thread calls send_data
MonitorSend ==
    /\ Len(sent) < MonitorMaxSends
    /\ LET payload == Payload(Len(sent) + 1)
           r == send_data(snd, payload, FALSE)
       IN  /\ snd' = r.t
           /\ c2s' = c2s \o send_message_bytes(r.out)
           /\ sent' = IF r.ret THEN Append(sent, payload) ELSE sent
           /\ last' = Op("send_data", r.ret)
    /\ UNCHANGED <<rcv, s2c, message_buffer, surfaced, delivered, env, cl, thr, ses>>

\* the application thread calls stop(): `self.running = False`
MonitorStop ==
    /\ snd.running
    /\ snd' = [snd EXCEPT !.running = FALSE]
    /\ last' = Op("stop", TRUE)
    /\ UNCHANGED <<rcv, c2s, s2c, message_buffer, surfaced, sent, delivered, env, cl, thr,
                   ses>>

NextMonitor ==
    \/ MonitorWhile
    \/ \E elapsed \in BOOLEAN : MonitorScan(elapsed)
    \/ MonitorRetransmit
    \/ MonitorSend
    \/ MonitorStop

SpecMonitor == InitMonitor /\ [][NextMonitor]_vars

\* the monitor thread is scheduled, and a timer that is looked at again and
\* again is found expired in the end
SpecMonitorFair ==
    /\ SpecMonitor
    /\ WF_vars(MonitorWhile)
    /\ WF_vars(\E elapsed \in BOOLEAN : MonitorScan(elapsed))
    /\ WF_vars(MonitorRetransmit)
    /\ \A seq_num \in 0..MonitorMaxSends - 1 : SF_vars(MonitorSeesExpired(seq_num))

\* C35: while the engine is running, every pending packet whose ACK never
\* arrives leaves the pending map in the end.
C35_PendingLeaves ==
    \A seq_num \in 0..MonitorMaxSends - 1 :
        (seq_num \in DOMAIN snd.pending_packets)
            ~> (seq_num \notin DOMAIN snd.pending_packets \/ ~snd.running)

\* the monitor thread has ended
MonitorEnded == thr.monitor_thread.pc \in {"exited", "RuntimeError"}

\* C36: after stop() the monitor thread ends; once it has found the running
\* flag cleared it begins no scan; stop() changes nothing of the engine but the
\* flag.
C36_StopEndsMonitor ==
    /\ ~snd.running ~> MonitorEnded
    /\ [][/\ (thr.monitor_thread.pc = "while" /\ ~snd.running)
               => thr'.monitor_thread.pc # "scan"
          /\ MonitorEnded => thr'.monitor_thread = thr.monitor_thread
          /\ (snd.running /\ ~snd'.running)
               => /\ snd' = [snd EXCEPT !.running = FALSE]
                  /\ UNCHANGED <<c2s, thr>>]_vars

\* stop() was called with a packet pending and the monitor has left its loop
C36_Witness ==
    /\ ~snd.running
    /\ thr.monitor_thread.pc = "exited"
    /\ snd.pending_packets # <<>>
    /\ snd.timers # <<>>

---------------------------------------------------------------------------
(* A sender that goes once round the sequence space (SpecWrap): the frame of
   one early sequence number is lost, every other frame is ACKed, and the
   sender keeps sending until next_seq_num has wrapped, all within the
   timeout of the frame that was lost *)

WrapMaxSends == 1001

WrapWindowSizes == {2}

\* the sequence numbers whose DATA frames simulate_packet_loss may drop
WrapLost == {0}

\* the application's fragments, sent over and over
WrapPayload(k) == Payload(((k - 1) % Len(split_message(DemoMessage, MAX_PAYLOAD_SIZE))) + 1)

InitWrap ==
    \E mode \in OperationMode, window_size \in WrapWindowSizes :
        /\ snd = ReliableTransport(mode, window_size)
        /\ rcv = ReliableTransport(mode, window_size)
        /\ c2s = <<>>
        /\ s2c = <<>>
        /\ message_buffer = <<>>
        /\ surfaced = <<>>
        /\ sent = <<>>
        /\ delivered = <<>>
        /\ last = Op("init", TRUE)
        /\ env = 0
        /\ thr = Threads
        /\ ses = Established(mode, window_size, DEFAULT_MAX_MESSAGE_SIZE)
        /\ cl = ClientOf(<<>>, MAX_PAYLOAD_SIZE, DEFAULT_MAX_MESSAGE_SIZE, NoErrorSimulation)

\* the application thread calls send_data when the frame before has been read
WrapSend ==
    /\ Len(sent) < WrapMaxSends
    /\ c2s = <<>>
    /\ s2c = <<>>
    /\ LET payload == WrapPayload(Len(sent) + 1)
           r == send_data(snd, payload, FALSE)
       IN  /\ snd' = r.t
           /\ c2s' = c2s \o send_message_bytes(r.out)
           /\ sent' = IF r.ret THEN Append(sent, payload) ELSE sent
           /\ last' = Op("send_data", r.ret)
    /\ UNCHANGED <<rcv, s2c, message_buffer, surfaced, delivered, env, cl, thr, ses>>

\* server.py _handle_client: simulate_packet_loss drops the frame read; the
\* frames lost are those whose sequence number is in WrapLost
WrapDrop ==
    /\ c2s # <<>>
    /\ Head(c2s).sequence \in WrapLost
    /\ c2s' = Tail(c2s)
    /\ last' = Op("server_drop", FALSE)
    /\ UNCHANGED <<snd, rcv, s2c, message_buffer, surfaced, sent, delivered, env, cl, thr,
                   ses>>

\* server.py _handle_client: a frame the loss simulation lets through is
\* decoded and dispatched
WrapServerReceive ==
    /\ c2s # <<>>
    /\ Head(c2s).sequence \notin WrapLost
    /\ ServerReceive

NextWrap ==
    \/ WrapSend
    \/ WrapDrop
    \/ WrapServerReceive
    \/ ClientReceive

SpecWrap == InitWrap /\ [][NextWrap]_vars

\* C37: send_data never assigns a sequence number that is still a key of the
\* pending map, so a successful send overwrites no unacknowledged packet.
C37_NoPendingOverwritten ==
    [][(last'.op = "send_data" /\ last'.ret)
          => snd.next_seq_num \notin DOMAIN snd.pending_packets]_vars

---------------------------------------------------------------------------
(* Properties of the server's sessions *)

\* C38: every complete message the server surfaces is made of the fragments of
\* one application message, and the message buffer is empty whenever a final
\* fragment has been handled.  Stated for SELECTIVE_REPEAT, where every fragment
\* reaches the session's handler once.
C38_OneMessagePerSurfaced ==
    rcv.operation_mode = SELECTIVE_REPEAT
        => /\ \A i \in 1..Len(surfaced) : surfaced[i] \in PromptMessages
           /\ (delivered # <<>> /\ delivered[Len(delivered)].is_final)
                => message_buffer = <<>>

---------------------------------------------------------------------------
(* One server with two connected peers (SpecPeers).  rcv, message_buffer,
   surfaced, c2s and s2c hold one value per peer; ses.peers[p] is what the
   server holds for peer p: its client_data together with the attributes of
   the server object, which all peers share *)

Peers == {1, 2}
MaxPeersFrames == 3

\* the attributes of `self` among the fields of a peer's record
ServerAttributes == {"window_size", "encryption_manager", "errors_detected"}

\* the record of a peer after the server handled a frame of another peer, whose
\* record became `handled`
SharedWith(handled, record) ==
    [field \in DOMAIN record |->
        IF field \in ServerAttributes THEN handled[field] ELSE record[field]]

\* the cipher of the peer's own client, made in main
PeerClient(p, enabled) ==
    [encryption_enabled |-> enabled,
     encryption_manager |-> IF enabled THEN EncryptionManager(p) ELSE None]

\* what a peer may write: a handshake request, with or without encryption,
\* and the first two fragments of the demo message, the second one final
PeersFrames(p) ==
    {KeyedHandshakeRequest(DEFAULT_MAX_MESSAGE_SIZE, GO_BACK_N, PeerClient(p, enabled)) :
        enabled \in BOOLEAN}
    \cup {DataMessage(sequence, Payload(sequence + 1),
                      calculate_checksum(Payload(sequence + 1)), sequence = 1) :
            sequence \in {0, 1}}

InitPeers ==
    /\ snd = None
    /\ rcv = [p \in Peers |-> None]
    /\ c2s = [p \in Peers |-> <<>>]
    /\ s2c = [p \in Peers |-> <<>>]
    /\ message_buffer = [p \in Peers |-> <<>>]
    /\ surfaced = [p \in Peers |-> <<>>]
    /\ sent = <<>>
    /\ delivered = <<>>
    /\ last = Op("init", TRUE)
    /\ env = 0
    /\ thr = [p \in Peers |-> <<>>]
    /\ ses = [peers |-> [p \in Peers |->
                 [Disconnected(DEFAULT_WINDOW_SIZE).server EXCEPT !.clients = "open"]]]
    /\ cl = ClientOf(<<>>, MAX_PAYLOAD_SIZE, DEFAULT_MAX_MESSAGE_SIZE, NoErrorSimulation)

\* peer p writes a frame once the server has read its frame before
PeersWrite(p, frame) ==
    /\ env < MaxPeersFrames
    /\ c2s[p] = <<>>
    /\ c2s' = [c2s EXCEPT ![p] = Append(@, to_bytes(frame))]
    /\ env' = env + 1
    /\ last' = [op |-> "peer_writes", ret |-> TRUE, peer |-> p]
    /\ UNCHANGED <<snd, rcv, s2c, message_buffer, surfaced, sent, delivered, cl, thr, ses>>

\* transport.start() in _handle_handshake: the monitor thread of the new engine
\* joins the threads started for the peer; no thread started before is stopped
started(monitors, transport) ==
    Append(monitors, [running |-> transport.running])

\* _handle_client of peer p: a frame is read, decoded and dispatched
PeersServerReceive(p) ==
    /\ c2s[p] # <<>>
    /\ \E key \in generate_key(from_bytes(Head(c2s[p]))) :
       LET decoded == from_bytes(Head(c2s[p]))
           message == decoded.message
           server == ses.peers[p]
           handshake == decoded.ok /\ message.msg_type = "HANDSHAKE_REQ"
           h == IF handshake THEN handle_handshake(server, rcv[p], message, key)
                ELSE [server |-> server, transport |-> rcv[p], response |-> None]
           r == IF decoded.ok /\ message.msg_type = "DATA"
                THEN server_handle_data_message(server, rcv[p], message)
                ELSE Result(h.transport, IF handshake THEN <<h.response>> ELSE <<>>,
                            <<>>, FALSE)
           session == deliver_all(Session(server, message_buffer[p], surfaced[p]), r.dlv)
       IN  /\ rcv' = [rcv EXCEPT ![p] = r.t]
           /\ s2c' = [s2c EXCEPT ![p] = @ \o send_message_bytes(r.out)]
           /\ c2s' = [c2s EXCEPT ![p] = Tail(@)]
           /\ delivered' = delivered \o r.dlv
           /\ message_buffer' = [message_buffer EXCEPT ![p] = session.message_buffer]
           /\ surfaced' = [surfaced EXCEPT ![p] = session.surfaced]
           /\ ses' = [ses EXCEPT !.peers =
                         [q \in Peers |-> IF q = p THEN h.server
                                          ELSE SharedWith(h.server, ses.peers[q])]]
           /\ thr' = [thr EXCEPT ![p] = IF handshake /\ h.response.accepted
                                         THEN started(@, h.transport) ELSE @]
           /\ last' = [op |-> "server_recv", ret |-> r.ret, peer |-> p]
    /\ UNCHANGED <<cl, snd, sent, env>>

NextPeers ==
    \/ \E p \in Peers : \E frame \in PeersFrames(p) : PeersWrite(p, frame)
    \/ \E p \in Peers : PeersServerReceive(p)

SpecPeers == InitPeers /\ [][NextPeers]_vars

\* C39: handling a frame of one peer leaves the engine, the message buffer and
\* the decryption key of every other peer as they were.
C39_PeersIsolated ==
    [][\A p \in Peers, q \in Peers :
          (last'.op = "server_recv" /\ last'.peer = p /\ q # p)
             => /\ rcv'[q] = rcv[q]
                /\ message_buffer'[q] = message_buffer[q]
                /\ ses.peers[q].encryption_enabled
                     => ses'.peers[q].encryption_manager = ses.peers[q].encryption_manager]_vars

\* the number of engines of peer p whose timeout monitor is running
RunningMonitors(monitors) ==
    Cardinality({i \in 1..Len(monitors) : monitors[i].running})

\* C40: when a HANDSHAKE_REQ is handled on a session whose handshake has
\* completed, the peer still has at most one engine with a running monitor,
\* and while frames of the old engine are unread the expected sequence number
\* and the received map of the session are kept.
C40_OneEnginePerSession ==
    [][\A p \in Peers :
          (/\ last'.op = "server_recv" /\ last'.peer = p
           /\ c2s[p] # <<>>
           /\ from_bytes(Head(c2s[p])).ok
           /\ from_bytes(Head(c2s[p])).message.msg_type = "HANDSHAKE_REQ"
           /\ ses.peers[p].handshake_completed)
             => /\ RunningMonitors(thr'[p]) <= 1
                /\ s2c[p] # <<>>
                     => /\ rcv'[p].expected_seq_num = rcv[p].expected_seq_num
                        /\ rcv'[p].received_packets = rcv[p].received_packets]_vars

============================================================================
